---------------------------- MODULE Spec2Model ----------------------------
(***************************************************************************)
(* The book/author GraphQL server (src/unnamed/part_002, the resolvers, and *)
(* src/unnamed/part_001, the seed data and resetData) as a state machine.  *)
(*                                                                         *)
(* JavaScript values are records [t, n, s]: t is the type tag, n the       *)
(* number (or 0/1 of a boolean), s the code units of a string.  Strings    *)
(* are sequences of UTF-16 code units, so that toLowerCase, trim,          *)
(* parseInt and the spread of an input object are computed, not assumed.   *)
(* A number below 2^31 in magnitude is held in n; a larger one is held as  *)
(* the binary numeral of a double.                                         *)
(***************************************************************************)
EXTENDS Integers, Sequences, FiniteSets

VARIABLES
  authors,        \* part_002 line 157: the live authors array
  books,          \* part_002 line 158: the live books array
  initialBooks,   \* part_001 line 13: the seed book objects (shared with books)
  seenBookIds,    \* history: every id a book has had since start-up / the last reset
  seenAuthorIds,  \* history: every id an author has had since start-up / the last reset
  requests,       \* the number of requests answered so far
  inflight,       \* per client: the request received and not yet resolved
  replies,        \* per client: the response to its request
  clock           \* the calendar year the system clock shows

vars ==
  <<authors, books, initialBooks, seenBookIds, seenAuthorIds, requests, inflight,
    replies, clock>>

---------------------------------------------------------------------------
(* JavaScript values *)

Undefined == [t |-> "undefined", n |-> 0, s |-> <<>>]
(* null: what a nullable argument or input field holds when the request     *)
(* gives it as null (an omitted one is undefined, or absent from the input). *)
Null == [t |-> "null", n |-> 0, s |-> <<>>]
NaN == [t |-> "NaN", n |-> 0, s |-> <<>>]
NegInfinity == [t |-> "-Infinity", n |-> 0, s |-> <<>>]
PosInfinity == [t |-> "Infinity", n |-> 0, s |-> <<>>]
Num(k) == [t |-> "number", n |-> k, s |-> <<>>]
Str(x) == [t |-> "string", n |-> 0, s |-> x]
Bool(b) == [t |-> "boolean", n |-> IF b THEN 1 ELSE 0, s |-> <<>>]

(* A finite number of magnitude 2^31 or more: the magnitude is bits * 2^shift, *)
(* bits being a binary numeral of at most 53 bits, most significant first,     *)
(* that starts and ends with a 1.                                              *)
BigNumber(neg, bits, shift) ==
  [t |-> IF neg THEN "-bignumber" ELSE "bignumber", n |-> shift, s |-> bits]

(* a === b : NaN equals nothing, values of different types are different. *)
StrictEq(a, b) == a.t # "NaN" /\ b.t # "NaN" /\ a = b

(* The truthiness of a value, as `if (v)` and `v && ...` test it. *)
Truthy(v) ==
  CASE v.t = "undefined" -> FALSE
    [] v.t = "null" -> FALSE
    [] v.t = "NaN" -> FALSE
    [] v.t = "number" -> v.n # 0
    [] v.t = "string" -> v.s # <<>>
    [] v.t = "boolean" -> v.n = 1
    [] OTHER -> TRUE

(* !v on a boolean field *)
Not(v) == Bool(~Truthy(v))

---------------------------------------------------------------------------
(* Strings *)

(* A string is the sequence of its UTF-16 code units, as numbers. String     *)
(* literals are written with the characters of Basic Latin: CodeUnits maps   *)
(* such a spelling to the code units, space (32) to tilde (126), the grave   *)
(* accent (96), whose place in the list is empty, aside. Other code units    *)
(* are written as numbers.                                                   *)
CodeUnitOf ==
  LET BasicLatin ==
        <<" ","!","\"","#","$","%","&","'","(",")","*","+",",","-",".","/",
          "0","1","2","3","4","5","6","7","8","9",":",";","<","=",">","?",
          "@","A","B","C","D","E","F","G","H","I","J","K","L","M","N","O",
          "P","Q","R","S","T","U","V","W","X","Y","Z","[","\\","]","^","_",
          "","a","b","c","d","e","f","g","h","i","j","k","l","m","n","o",
          "p","q","r","s","t","u","v","w","x","y","z","{","|","}","~">>
  IN  [c \in {BasicLatin[i] : i \in (1..Len(BasicLatin)) \ {65}} |->
         31 + CHOOSE i \in (1..Len(BasicLatin)) \ {65} : BasicLatin[i] = c]

CodeUnits(spelling) == [i \in 1..Len(spelling) |-> CodeUnitOf[spelling[i]]]

(* The code units ECMAScript counts as white space or line terminators: what *)
(* String.prototype.trim strips, what \s matches in a regular expression and  *)
(* what parseInt skips: tab, line feed, vertical tab, form feed, carriage      *)
(* return, space, no-break space, ogham space mark, U+2000 to U+200A, line    *)
(* and paragraph separator, narrow no-break space, medium mathematical space, *)
(* ideographic space, byte order mark.                                        *)
WhiteSpace ==
  {9, 10, 11, 12, 13, 32, 160, 5760} \cup (8192..8202)
    \cup {8232, 8233, 8239, 8287, 12288, 65279}

IsWhitespace(c) == c \in WhiteSpace

(* Unicode case data, by code point, as of Unicode 17.0: the data of Unicode  *)
(* 15.0 with the changes of 16.0 and 17.0, that is the new case pairs (Garay, *)
(* Beria Erfe, Cyrillic Tje, the Latin letters from U+A7CB to U+A7DC), the    *)
(* new non-spacing marks and modifier letters, U+0295 caseless and U+1171E a  *)
(* spacing mark.                                                              *)
(* LowerCaseMapping: <<first, last, step, delta>> says that the code points   *)
(* first, first + step, ... up to last have the lower-case form code point +  *)
(* delta. The one code point whose lower-case form is longer than itself is   *)
(* U+0130, capital I with dot above: it lowers to i (105) and combining dot   *)
(* above (775).                                                               *)
LowerCaseMapping ==
  {<<65, 90, 1, 32>>, <<192, 214, 1, 32>>, <<216, 222, 1, 32>>,
   <<256, 302, 2, 1>>, <<304, 304, 1, 0 - 199>>, <<306, 310, 2, 1>>,
   <<313, 327, 2, 1>>, <<330, 374, 2, 1>>, <<376, 376, 1, 0 - 121>>,
   <<377, 381, 2, 1>>, <<385, 385, 1, 210>>, <<386, 388, 2, 1>>,
   <<390, 390, 1, 206>>, <<391, 391, 1, 1>>, <<393, 394, 1, 205>>,
   <<395, 395, 1, 1>>, <<398, 398, 1, 79>>, <<399, 399, 1, 202>>,
   <<400, 400, 1, 203>>, <<401, 401, 1, 1>>, <<403, 403, 1, 205>>,
   <<404, 404, 1, 207>>, <<406, 406, 1, 211>>, <<407, 407, 1, 209>>,
   <<408, 408, 1, 1>>, <<412, 412, 1, 211>>, <<413, 413, 1, 213>>,
   <<415, 415, 1, 214>>, <<416, 420, 2, 1>>, <<422, 422, 1, 218>>,
   <<423, 423, 1, 1>>, <<425, 425, 1, 218>>, <<428, 428, 1, 1>>,
   <<430, 430, 1, 218>>, <<431, 431, 1, 1>>, <<433, 434, 1, 217>>,
   <<435, 437, 2, 1>>, <<439, 439, 1, 219>>, <<440, 440, 1, 1>>,
   <<444, 444, 1, 1>>, <<452, 452, 1, 2>>, <<453, 453, 1, 1>>,
   <<455, 455, 1, 2>>, <<456, 456, 1, 1>>, <<458, 458, 1, 2>>,
   <<459, 475, 2, 1>>, <<478, 494, 2, 1>>, <<497, 497, 1, 2>>,
   <<498, 500, 2, 1>>, <<502, 502, 1, 0 - 97>>, <<503, 503, 1, 0 - 56>>,
   <<504, 542, 2, 1>>, <<544, 544, 1, 0 - 130>>, <<546, 562, 2, 1>>,
   <<570, 570, 1, 10795>>, <<571, 571, 1, 1>>, <<573, 573, 1, 0 - 163>>,
   <<574, 574, 1, 10792>>, <<577, 577, 1, 1>>, <<579, 579, 1, 0 - 195>>,
   <<580, 580, 1, 69>>, <<581, 581, 1, 71>>, <<582, 590, 2, 1>>,
   <<880, 882, 2, 1>>, <<886, 886, 1, 1>>, <<895, 895, 1, 116>>,
   <<902, 902, 1, 38>>, <<904, 906, 1, 37>>, <<908, 908, 1, 64>>,
   <<910, 911, 1, 63>>, <<913, 929, 1, 32>>, <<931, 939, 1, 32>>,
   <<975, 975, 1, 8>>, <<984, 1006, 2, 1>>, <<1012, 1012, 1, 0 - 60>>,
   <<1015, 1015, 1, 1>>, <<1017, 1017, 1, 0 - 7>>, <<1018, 1018, 1, 1>>,
   <<1021, 1023, 1, 0 - 130>>, <<1024, 1039, 1, 80>>, <<1040, 1071, 1, 32>>,
   <<1120, 1152, 2, 1>>, <<1162, 1214, 2, 1>>, <<1216, 1216, 1, 15>>,
   <<1217, 1229, 2, 1>>, <<1232, 1326, 2, 1>>, <<1329, 1366, 1, 48>>,
   <<4256, 4293, 1, 7264>>, <<4295, 4295, 1, 7264>>, <<4301, 4301, 1, 7264>>,
   <<5024, 5103, 1, 38864>>, <<5104, 5109, 1, 8>>, <<7305, 7305, 1, 1>>,
   <<7312, 7354, 1, 0 - 3008>>, <<7357, 7359, 1, 0 - 3008>>,
   <<7680, 7828, 2, 1>>, <<7838, 7838, 1, 0 - 7615>>, <<7840, 7934, 2, 1>>,
   <<7944, 7951, 1, 0 - 8>>, <<7960, 7965, 1, 0 - 8>>,
   <<7976, 7983, 1, 0 - 8>>, <<7992, 7999, 1, 0 - 8>>,
   <<8008, 8013, 1, 0 - 8>>, <<8025, 8031, 2, 0 - 8>>,
   <<8040, 8047, 1, 0 - 8>>, <<8072, 8079, 1, 0 - 8>>,
   <<8088, 8095, 1, 0 - 8>>, <<8104, 8111, 1, 0 - 8>>,
   <<8120, 8121, 1, 0 - 8>>, <<8122, 8123, 1, 0 - 74>>,
   <<8124, 8124, 1, 0 - 9>>, <<8136, 8139, 1, 0 - 86>>,
   <<8140, 8140, 1, 0 - 9>>, <<8152, 8153, 1, 0 - 8>>,
   <<8154, 8155, 1, 0 - 100>>, <<8168, 8169, 1, 0 - 8>>,
   <<8170, 8171, 1, 0 - 112>>, <<8172, 8172, 1, 0 - 7>>,
   <<8184, 8185, 1, 0 - 128>>, <<8186, 8187, 1, 0 - 126>>,
   <<8188, 8188, 1, 0 - 9>>, <<8486, 8486, 1, 0 - 7517>>,
   <<8490, 8490, 1, 0 - 8383>>, <<8491, 8491, 1, 0 - 8262>>,
   <<8498, 8498, 1, 28>>, <<8544, 8559, 1, 16>>, <<8579, 8579, 1, 1>>,
   <<9398, 9423, 1, 26>>, <<11264, 11311, 1, 48>>, <<11360, 11360, 1, 1>>,
   <<11362, 11362, 1, 0 - 10743>>, <<11363, 11363, 1, 0 - 3814>>,
   <<11364, 11364, 1, 0 - 10727>>, <<11367, 11371, 2, 1>>,
   <<11373, 11373, 1, 0 - 10780>>, <<11374, 11374, 1, 0 - 10749>>,
   <<11375, 11375, 1, 0 - 10783>>, <<11376, 11376, 1, 0 - 10782>>,
   <<11378, 11378, 1, 1>>, <<11381, 11381, 1, 1>>,
   <<11390, 11391, 1, 0 - 10815>>, <<11392, 11490, 2, 1>>,
   <<11499, 11501, 2, 1>>, <<11506, 11506, 1, 1>>, <<42560, 42604, 2, 1>>,
   <<42624, 42650, 2, 1>>, <<42786, 42798, 2, 1>>, <<42802, 42862, 2, 1>>,
   <<42873, 42875, 2, 1>>, <<42877, 42877, 1, 0 - 35332>>,
   <<42878, 42886, 2, 1>>, <<42891, 42891, 1, 1>>,
   <<42893, 42893, 1, 0 - 42280>>, <<42896, 42898, 2, 1>>,
   <<42902, 42920, 2, 1>>, <<42922, 42922, 1, 0 - 42308>>,
   <<42923, 42923, 1, 0 - 42319>>, <<42924, 42924, 1, 0 - 42315>>,
   <<42925, 42925, 1, 0 - 42305>>, <<42926, 42926, 1, 0 - 42308>>,
   <<42928, 42928, 1, 0 - 42258>>, <<42929, 42929, 1, 0 - 42282>>,
   <<42930, 42930, 1, 0 - 42261>>, <<42931, 42931, 1, 928>>,
   <<42932, 42946, 2, 1>>, <<42948, 42948, 1, 0 - 48>>,
   <<42949, 42949, 1, 0 - 42307>>, <<42950, 42950, 1, 0 - 35384>>,
   <<42951, 42953, 2, 1>>, <<42955, 42955, 1, 0 - 42343>>,
   <<42956, 42970, 2, 1>>, <<42972, 42972, 1, 0 - 42561>>,
   <<42997, 42997, 1, 1>>, <<65313, 65338, 1, 32>>, <<66560, 66599, 1, 40>>,
   <<66736, 66771, 1, 40>>, <<66928, 66938, 1, 39>>, <<66940, 66954, 1, 39>>,
   <<66956, 66962, 1, 39>>, <<66964, 66965, 1, 39>>, <<68736, 68786, 1, 64>>,
   <<68944, 68965, 1, 32>>, <<71840, 71871, 1, 32>>, <<93760, 93791, 1, 32>>,
   <<93856, 93880, 1, 27>>, <<125184, 125217, 1, 34>>}

(* The code points with the property Cased, as ranges <<first, last>>. *)
CasedRanges ==
  {<<65, 90>>, <<97, 122>>, <<170, 170>>, <<181, 181>>, <<186, 186>>,
   <<192, 214>>, <<216, 246>>, <<248, 442>>, <<444, 447>>, <<452, 659>>,
   <<662, 696>>, <<704, 705>>, <<736, 740>>, <<837, 837>>, <<880, 883>>,
   <<886, 887>>, <<890, 893>>, <<895, 895>>, <<902, 902>>, <<904, 906>>,
   <<908, 908>>, <<910, 929>>, <<931, 1013>>, <<1015, 1153>>, <<1162, 1327>>,
   <<1329, 1366>>, <<1376, 1416>>, <<4256, 4293>>, <<4295, 4295>>,
   <<4301, 4301>>, <<4304, 4346>>, <<4348, 4351>>, <<5024, 5109>>,
   <<5112, 5117>>, <<7296, 7306>>, <<7312, 7354>>, <<7357, 7359>>,
   <<7424, 7615>>, <<7680, 7957>>, <<7960, 7965>>, <<7968, 8005>>,
   <<8008, 8013>>, <<8016, 8023>>, <<8025, 8025>>, <<8027, 8027>>,
   <<8029, 8029>>, <<8031, 8061>>, <<8064, 8116>>, <<8118, 8124>>,
   <<8126, 8126>>, <<8130, 8132>>, <<8134, 8140>>, <<8144, 8147>>,
   <<8150, 8155>>, <<8160, 8172>>, <<8178, 8180>>, <<8182, 8188>>,
   <<8305, 8305>>, <<8319, 8319>>, <<8336, 8348>>, <<8450, 8450>>,
   <<8455, 8455>>, <<8458, 8467>>, <<8469, 8469>>, <<8473, 8477>>,
   <<8484, 8484>>, <<8486, 8486>>, <<8488, 8488>>, <<8490, 8493>>,
   <<8495, 8500>>, <<8505, 8505>>, <<8508, 8511>>, <<8517, 8521>>,
   <<8526, 8526>>, <<8544, 8575>>, <<8579, 8580>>, <<9398, 9449>>,
   <<11264, 11492>>, <<11499, 11502>>, <<11506, 11507>>, <<11520, 11557>>,
   <<11559, 11559>>, <<11565, 11565>>, <<42560, 42605>>, <<42624, 42653>>,
   <<42786, 42887>>, <<42891, 42894>>, <<42896, 42972>>, <<42993, 42998>>,
   <<43000, 43002>>, <<43824, 43866>>, <<43868, 43881>>, <<43888, 43967>>,
   <<64256, 64262>>, <<64275, 64279>>, <<65313, 65338>>, <<65345, 65370>>,
   <<66560, 66639>>, <<66736, 66771>>, <<66776, 66811>>, <<66928, 66938>>,
   <<66940, 66954>>, <<66956, 66962>>, <<66964, 66965>>, <<66967, 66977>>,
   <<66979, 66993>>, <<66995, 67001>>, <<67003, 67004>>, <<67456, 67456>>,
   <<67459, 67461>>, <<67463, 67504>>, <<67506, 67514>>, <<68736, 68786>>,
   <<68800, 68850>>, <<68944, 68965>>, <<68976, 68997>>, <<71840, 71903>>,
   <<93760, 93823>>, <<93856, 93880>>, <<93883, 93907>>, <<119808, 119892>>,
   <<119894, 119964>>, <<119966, 119967>>, <<119970, 119970>>,
   <<119973, 119974>>, <<119977, 119980>>, <<119982, 119993>>,
   <<119995, 119995>>, <<119997, 120003>>, <<120005, 120069>>,
   <<120071, 120074>>, <<120077, 120084>>, <<120086, 120092>>,
   <<120094, 120121>>, <<120123, 120126>>, <<120128, 120132>>,
   <<120134, 120134>>, <<120138, 120144>>, <<120146, 120485>>,
   <<120488, 120512>>, <<120514, 120538>>, <<120540, 120570>>,
   <<120572, 120596>>, <<120598, 120628>>, <<120630, 120654>>,
   <<120656, 120686>>, <<120688, 120712>>, <<120714, 120744>>,
   <<120746, 120770>>, <<120772, 120779>>, <<122624, 122633>>,
   <<122635, 122654>>, <<122661, 122666>>, <<122928, 122989>>,
   <<125184, 125251>>, <<127280, 127305>>, <<127312, 127337>>,
   <<127344, 127369>>}

(* The code points with the property Case_Ignorable, as ranges. *)
CaseIgnorableRanges ==
  {<<39, 39>>, <<46, 46>>, <<58, 58>>, <<94, 94>>, <<96, 96>>, <<168, 168>>,
   <<173, 173>>, <<175, 175>>, <<180, 180>>, <<183, 184>>, <<688, 879>>,
   <<884, 885>>, <<890, 890>>, <<900, 901>>, <<903, 903>>, <<1155, 1161>>,
   <<1369, 1369>>, <<1375, 1375>>, <<1425, 1469>>, <<1471, 1471>>,
   <<1473, 1474>>, <<1476, 1477>>, <<1479, 1479>>, <<1524, 1524>>,
   <<1536, 1541>>, <<1552, 1562>>, <<1564, 1564>>, <<1600, 1600>>,
   <<1611, 1631>>, <<1648, 1648>>, <<1750, 1757>>, <<1759, 1768>>,
   <<1770, 1773>>, <<1807, 1807>>, <<1809, 1809>>, <<1840, 1866>>,
   <<1958, 1968>>, <<2027, 2037>>, <<2042, 2042>>, <<2045, 2045>>,
   <<2070, 2093>>, <<2137, 2139>>, <<2184, 2184>>, <<2192, 2193>>,
   <<2199, 2207>>, <<2249, 2306>>, <<2362, 2362>>, <<2364, 2364>>,
   <<2369, 2376>>, <<2381, 2381>>, <<2385, 2391>>, <<2402, 2403>>,
   <<2417, 2417>>, <<2433, 2433>>, <<2492, 2492>>, <<2497, 2500>>,
   <<2509, 2509>>, <<2530, 2531>>, <<2558, 2558>>, <<2561, 2562>>,
   <<2620, 2620>>, <<2625, 2626>>, <<2631, 2632>>, <<2635, 2637>>,
   <<2641, 2641>>, <<2672, 2673>>, <<2677, 2677>>, <<2689, 2690>>,
   <<2748, 2748>>, <<2753, 2757>>, <<2759, 2760>>, <<2765, 2765>>,
   <<2786, 2787>>, <<2810, 2815>>, <<2817, 2817>>, <<2876, 2876>>,
   <<2879, 2879>>, <<2881, 2884>>, <<2893, 2893>>, <<2901, 2902>>,
   <<2914, 2915>>, <<2946, 2946>>, <<3008, 3008>>, <<3021, 3021>>,
   <<3072, 3072>>, <<3076, 3076>>, <<3132, 3132>>, <<3134, 3136>>,
   <<3142, 3144>>, <<3146, 3149>>, <<3157, 3158>>, <<3170, 3171>>,
   <<3201, 3201>>, <<3260, 3260>>, <<3263, 3263>>, <<3270, 3270>>,
   <<3276, 3277>>, <<3298, 3299>>, <<3328, 3329>>, <<3387, 3388>>,
   <<3393, 3396>>, <<3405, 3405>>, <<3426, 3427>>, <<3457, 3457>>,
   <<3530, 3530>>, <<3538, 3540>>, <<3542, 3542>>, <<3633, 3633>>,
   <<3636, 3642>>, <<3654, 3662>>, <<3761, 3761>>, <<3764, 3772>>,
   <<3782, 3782>>, <<3784, 3790>>, <<3864, 3865>>, <<3893, 3893>>,
   <<3895, 3895>>, <<3897, 3897>>, <<3953, 3966>>, <<3968, 3972>>,
   <<3974, 3975>>, <<3981, 3991>>, <<3993, 4028>>, <<4038, 4038>>,
   <<4141, 4144>>, <<4146, 4151>>, <<4153, 4154>>, <<4157, 4158>>,
   <<4184, 4185>>, <<4190, 4192>>, <<4209, 4212>>, <<4226, 4226>>,
   <<4229, 4230>>, <<4237, 4237>>, <<4253, 4253>>, <<4348, 4348>>,
   <<4957, 4959>>, <<5906, 5908>>, <<5938, 5939>>, <<5970, 5971>>,
   <<6002, 6003>>, <<6068, 6069>>, <<6071, 6077>>, <<6086, 6086>>,
   <<6089, 6099>>, <<6103, 6103>>, <<6109, 6109>>, <<6155, 6159>>,
   <<6211, 6211>>, <<6277, 6278>>, <<6313, 6313>>, <<6432, 6434>>,
   <<6439, 6440>>, <<6450, 6450>>, <<6457, 6459>>, <<6679, 6680>>,
   <<6683, 6683>>, <<6742, 6742>>, <<6744, 6750>>, <<6752, 6752>>,
   <<6754, 6754>>, <<6757, 6764>>, <<6771, 6780>>, <<6783, 6783>>,
   <<6823, 6823>>, <<6832, 6877>>, <<6880, 6891>>, <<6912, 6915>>,
   <<6964, 6964>>, <<6966, 6970>>, <<6972, 6972>>, <<6978, 6978>>,
   <<7019, 7027>>, <<7040, 7041>>, <<7074, 7077>>, <<7080, 7081>>,
   <<7083, 7085>>, <<7142, 7142>>, <<7144, 7145>>, <<7149, 7149>>,
   <<7151, 7153>>, <<7212, 7219>>, <<7222, 7223>>, <<7288, 7293>>,
   <<7376, 7378>>, <<7380, 7392>>, <<7394, 7400>>, <<7405, 7405>>,
   <<7412, 7412>>, <<7416, 7417>>, <<7468, 7530>>, <<7544, 7544>>,
   <<7579, 7679>>, <<8125, 8125>>, <<8127, 8129>>, <<8141, 8143>>,
   <<8157, 8159>>, <<8173, 8175>>, <<8189, 8190>>, <<8203, 8207>>,
   <<8216, 8217>>, <<8228, 8228>>, <<8231, 8231>>, <<8234, 8238>>,
   <<8288, 8292>>, <<8294, 8303>>, <<8305, 8305>>, <<8319, 8319>>,
   <<8336, 8348>>, <<8400, 8432>>, <<11388, 11389>>, <<11503, 11505>>,
   <<11631, 11631>>, <<11647, 11647>>, <<11744, 11775>>, <<11823, 11823>>,
   <<12293, 12293>>, <<12330, 12333>>, <<12337, 12341>>, <<12347, 12347>>,
   <<12441, 12446>>, <<12540, 12542>>, <<40981, 40981>>, <<42232, 42237>>,
   <<42508, 42508>>, <<42607, 42610>>, <<42612, 42621>>, <<42623, 42623>>,
   <<42652, 42655>>, <<42736, 42737>>, <<42752, 42785>>, <<42864, 42864>>,
   <<42888, 42890>>, <<42993, 42996>>, <<43000, 43001>>, <<43010, 43010>>,
   <<43014, 43014>>, <<43019, 43019>>, <<43045, 43046>>, <<43052, 43052>>,
   <<43204, 43205>>, <<43232, 43249>>, <<43263, 43263>>, <<43302, 43309>>,
   <<43335, 43345>>, <<43392, 43394>>, <<43443, 43443>>, <<43446, 43449>>,
   <<43452, 43453>>, <<43471, 43471>>, <<43493, 43494>>, <<43561, 43566>>,
   <<43569, 43570>>, <<43573, 43574>>, <<43587, 43587>>, <<43596, 43596>>,
   <<43632, 43632>>, <<43644, 43644>>, <<43696, 43696>>, <<43698, 43700>>,
   <<43703, 43704>>, <<43710, 43711>>, <<43713, 43713>>, <<43741, 43741>>,
   <<43756, 43757>>, <<43763, 43764>>, <<43766, 43766>>, <<43867, 43871>>,
   <<43881, 43883>>, <<44005, 44005>>, <<44008, 44008>>, <<44013, 44013>>,
   <<64286, 64286>>, <<64434, 64450>>, <<65024, 65039>>, <<65043, 65043>>,
   <<65056, 65071>>, <<65106, 65106>>, <<65109, 65109>>, <<65279, 65279>>,
   <<65287, 65287>>, <<65294, 65294>>, <<65306, 65306>>, <<65342, 65342>>,
   <<65344, 65344>>, <<65392, 65392>>, <<65438, 65439>>, <<65507, 65507>>,
   <<65529, 65531>>, <<66045, 66045>>, <<66272, 66272>>, <<66422, 66426>>,
   <<67456, 67461>>, <<67463, 67504>>, <<67506, 67514>>, <<68097, 68099>>,
   <<68101, 68102>>, <<68108, 68111>>, <<68152, 68154>>, <<68159, 68159>>,
   <<68325, 68326>>, <<68900, 68903>>, <<68942, 68942>>, <<68969, 68973>>,
   <<68975, 68975>>, <<69291, 69292>>, <<69317, 69317>>, <<69370, 69375>>,
   <<69446, 69456>>, <<69506, 69509>>, <<69633, 69633>>, <<69688, 69702>>,
   <<69744, 69744>>, <<69747, 69748>>, <<69759, 69761>>, <<69811, 69814>>,
   <<69817, 69818>>, <<69821, 69821>>, <<69826, 69826>>, <<69837, 69837>>,
   <<69888, 69890>>, <<69927, 69931>>, <<69933, 69940>>, <<70003, 70003>>,
   <<70016, 70017>>, <<70070, 70078>>, <<70089, 70092>>, <<70095, 70095>>,
   <<70191, 70193>>, <<70196, 70196>>, <<70198, 70199>>, <<70206, 70206>>,
   <<70209, 70209>>, <<70367, 70367>>, <<70371, 70378>>, <<70400, 70401>>,
   <<70459, 70460>>, <<70464, 70464>>, <<70502, 70508>>, <<70512, 70516>>,
   <<70587, 70592>>, <<70606, 70606>>, <<70608, 70608>>, <<70610, 70610>>,
   <<70625, 70626>>, <<70712, 70719>>, <<70722, 70724>>, <<70726, 70726>>,
   <<70750, 70750>>, <<70835, 70840>>, <<70842, 70842>>, <<70847, 70848>>,
   <<70850, 70851>>, <<71090, 71093>>, <<71100, 71101>>, <<71103, 71104>>,
   <<71132, 71133>>, <<71219, 71226>>, <<71229, 71229>>, <<71231, 71232>>,
   <<71339, 71339>>, <<71341, 71341>>, <<71344, 71349>>, <<71351, 71351>>,
   <<71453, 71453>>, <<71455, 71455>>, <<71458, 71461>>, <<71463, 71467>>,
   <<71727, 71735>>, <<71737, 71738>>, <<71995, 71996>>, <<71998, 71998>>,
   <<72003, 72003>>, <<72148, 72151>>, <<72154, 72155>>, <<72160, 72160>>,
   <<72193, 72202>>, <<72243, 72248>>, <<72251, 72254>>, <<72263, 72263>>,
   <<72273, 72278>>, <<72281, 72283>>, <<72330, 72342>>, <<72344, 72345>>,
   <<72544, 72544>>, <<72546, 72548>>, <<72550, 72550>>, <<72752, 72758>>,
   <<72760, 72765>>, <<72767, 72767>>, <<72850, 72871>>, <<72874, 72880>>,
   <<72882, 72883>>, <<72885, 72886>>, <<73009, 73014>>, <<73018, 73018>>,
   <<73020, 73021>>, <<73023, 73029>>, <<73031, 73031>>, <<73104, 73105>>,
   <<73109, 73109>>, <<73111, 73111>>, <<73177, 73177>>, <<73459, 73460>>,
   <<73472, 73473>>, <<73526, 73530>>, <<73536, 73536>>, <<73538, 73538>>,
   <<73562, 73562>>, <<78896, 78912>>, <<78919, 78933>>, <<90398, 90409>>,
   <<90413, 90415>>, <<92912, 92916>>, <<92976, 92982>>, <<92992, 92995>>,
   <<93504, 93506>>, <<93547, 93548>>, <<94031, 94031>>, <<94095, 94111>>,
   <<94176, 94177>>, <<94179, 94180>>, <<94194, 94195>>, <<110576, 110579>>,
   <<110581, 110587>>, <<110589, 110590>>, <<113821, 113822>>,
   <<113824, 113827>>, <<118528, 118573>>, <<118576, 118598>>,
   <<119143, 119145>>, <<119155, 119170>>, <<119173, 119179>>,
   <<119210, 119213>>, <<119362, 119364>>, <<121344, 121398>>,
   <<121403, 121452>>, <<121461, 121461>>, <<121476, 121476>>,
   <<121499, 121503>>, <<121505, 121519>>, <<122880, 122886>>,
   <<122888, 122904>>, <<122907, 122913>>, <<122915, 122916>>,
   <<122918, 122922>>, <<122928, 122989>>, <<123023, 123023>>,
   <<123184, 123197>>, <<123566, 123566>>, <<123628, 123631>>,
   <<124139, 124143>>, <<124398, 124399>>, <<124643, 124643>>,
   <<124646, 124646>>, <<124654, 124655>>, <<124661, 124661>>,
   <<124671, 124671>>, <<125136, 125142>>, <<125252, 125259>>,
   <<127995, 127999>>, <<917505, 917505>>, <<917536, 917631>>,
   <<917760, 917999>>}

LowerCodePoint(c) ==
  IF \E r \in LowerCaseMapping : r[1] <= c /\ c <= r[2] /\ (c - r[1]) % r[3] = 0
    THEN c + (CHOOSE r \in LowerCaseMapping :
                r[1] <= c /\ c <= r[2] /\ (c - r[1]) % r[3] = 0)[4]
    ELSE c

(* The lower-case forms of the code points up to U+04FF, computed once. *)
LowerOf == [c \in 0..1279 |-> LowerCodePoint(c)]

(* The lower-case form of a code point that lowers to one code point. *)
LowerChar(c) == IF c \in DOMAIN LowerOf THEN LowerOf[c] ELSE LowerCodePoint(c)

Cased(c) == \E r \in CasedRanges : r[1] <= c /\ c <= r[2]
CaseIgnorable(c) == \E r \in CaseIgnorableRanges : r[1] <= c /\ c <= r[2]

(* Surrogate pairs: a high surrogate followed by a low one spells one code   *)
(* point above U+FFFF; any other surrogate stands for itself.                *)
(* High surrogates are the code units 55296 to 56319 (U+D800 to U+DBFF),     *)
(* low surrogates 56320 to 57343 (U+DC00 to U+DFFF).                         *)
IsTrail(x, i) == i > 1 /\ x[i] \in 56320..57343 /\ x[i - 1] \in 55296..56319
IsLead(x, i) == i < Len(x) /\ x[i] \in 55296..56319 /\ x[i + 1] \in 56320..57343

(* The code point that starts at code unit i of x. *)
codePointAt(x, i) ==
  IF IsLead(x, i) THEN 65536 + (x[i] - 55296) * 1024 + (x[i + 1] - 56320)
  ELSE x[i]

(* A capital sigma (U+03A3) at i ends a word when, case-ignorable code       *)
(* points skipped, a cased letter comes before it and none comes after it:   *)
(* it lowers to final sigma (U+03C2). A code point that is both cased and    *)
(* case-ignorable is skipped.                                                *)
FinalSigma(x, i) ==
  /\ \E j \in 1..(i - 1) :
       /\ ~IsTrail(x, j)
       /\ ~CaseIgnorable(codePointAt(x, j)) /\ Cased(codePointAt(x, j))
       /\ \A k \in (j + 1)..(i - 1) :
            IsTrail(x, k) \/ CaseIgnorable(codePointAt(x, k))
  /\ ~\E j \in (i + 1)..Len(x) :
       /\ ~IsTrail(x, j)
       /\ ~CaseIgnorable(codePointAt(x, j)) /\ Cased(codePointAt(x, j))
       /\ \A k \in (i + 1)..(j - 1) :
            IsTrail(x, k) \/ CaseIgnorable(codePointAt(x, k))

(* The code unit that code unit i of x, other than U+0130, lowers to. *)
LowerUnit(x, i) ==
  IF x[i] < 55296
    THEN (IF x[i] = 931 /\ FinalSigma(x, i) THEN 962 ELSE LowerChar(x[i]))
  ELSE IF IsTrail(x, i)
    THEN 56320 + ((LowerChar(codePointAt(x, i - 1)) - 65536) % 1024)
  ELSE IF IsLead(x, i)
    THEN 55296 + ((LowerChar(codePointAt(x, i)) - 65536) \div 1024)
  ELSE LowerChar(x[i])

(* String.prototype.toLowerCase: every code point is replaced by its         *)
(* lower-case form; U+0130 becomes two code units, which moves what follows. *)
toLowerCase(x) ==
  IF \A i \in 1..Len(x) : x[i] # 304
    THEN [i \in 1..Len(x) |-> LowerUnit(x, i)]
    ELSE LET dots == [i \in 0..Len(x) |-> Cardinality({j \in 1..i : x[j] = 304})]
         IN  [p \in 1..(Len(x) + dots[Len(x)]) |->
                LET i == CHOOSE k \in 1..Len(x) :
                           k + dots[k - 1] <= p /\ p <= k + dots[k]
                IN  IF x[i] # 304 THEN LowerUnit(x, i)
                    ELSE IF p = i + dots[i - 1] THEN 105 ELSE 775]

(* String.prototype.trim *)
trimStart(x) ==
  IF \A i \in 1..Len(x) : IsWhitespace(x[i]) THEN <<>>
  ELSE SubSeq(x, CHOOSE i \in 1..Len(x) :
                   ~IsWhitespace(x[i]) /\ \A j \in 1..(i - 1) : IsWhitespace(x[j]),
              Len(x))

trimEnd(x) ==
  IF \A i \in 1..Len(x) : IsWhitespace(x[i]) THEN <<>>
  ELSE SubSeq(x, 1, CHOOSE i \in 1..Len(x) :
                      ~IsWhitespace(x[i]) /\ \A j \in (i + 1)..Len(x) : IsWhitespace(x[j]))

trim(x) == trimEnd(trimStart(x))

(* A digit of the radix (10 or 16), and its value: 0 to 9 are the code units *)
(* 48 to 57, a to f 97 to 102, A to F 65 to 70.                               *)
IsRadixDigit(c, radix) ==
  \/ c \in 48..57
  \/ radix = 16 /\ (c \in 97..102 \/ c \in 65..70)

RadixDigitValue(c) ==
  IF c \in 48..57 THEN c - 48
  ELSE IF c \in 97..102 THEN c - 87
  ELSE c - 55

(* The leading run of digits of x in the radix. *)
LeadingDigits(x, radix) ==
  IF \A i \in 1..Len(x) : IsRadixDigit(x[i], radix) THEN x
  ELSE SubSeq(x, 1, (CHOOSE i \in 1..Len(x) :
                       /\ ~IsRadixDigit(x[i], radix)
                       /\ \A j \in 1..(i - 1) : IsRadixDigit(x[j], radix)) - 1)

(* The digits of d from its first digit other than 0 on. *)
SignificantDigits(d) ==
  IF \A i \in 1..Len(d) : d[i] = 48 THEN <<>>
  ELSE SubSeq(d, CHOOSE i \in 1..Len(d) :
                   d[i] # 48 /\ \A j \in 1..(i - 1) : d[j] = 48,
              Len(d))

(* Numerals are valued exactly, as natural numbers of any size: a sequence   *)
(* of limbs, each below 4096 = 2^12, least significant first, the last one   *)
(* not 0.                                                                    *)
RECURSIVE Sum(_)
Sum(xs) ==
  IF xs = <<>> THEN 0
  ELSE IF Len(xs) = 1 THEN xs[1]
  ELSE Sum(SubSeq(xs, 1, Len(xs) \div 2))
       + Sum(SubSeq(xs, (Len(xs) \div 2) + 1, Len(xs)))

(* The limbs of the number whose places hold the values v (each below 2^31). *)
(* One step of carrying: every place keeps its remainder and takes the       *)
(* quotient of the place below. After three steps every place holds at most  *)
(* 4096, and a place takes a carry of 1 when a place below it holds 4096 and *)
(* the places between hold 4095.                                             *)
Normalize(v) ==
  LET LocalCarry(u) ==
        [k \in 1..(Len(u) + 1) |->
           (IF k <= Len(u) THEN u[k] % 4096 ELSE 0)
           + (IF k > 1 THEN u[k - 1] \div 4096 ELSE 0)]
      c == LocalCarry(LocalCarry(LocalCarry(v)))
      carryIn == [k \in 1..Len(c) |->
                    IF \E j \in 1..(k - 1) :
                         c[j] = 4096 /\ \A m \in (j + 1)..(k - 1) : c[m] = 4095
                      THEN 1 ELSE 0]
      limbs == [k \in 1..Len(c) |-> (c[k] + carryIn[k]) % 4096]
  IN  IF \A k \in 1..Len(limbs) : limbs[k] = 0 THEN <<>>
      ELSE SubSeq(limbs, 1, CHOOSE k \in 1..Len(limbs) :
                              limbs[k] # 0 /\ \A m \in (k + 1)..Len(limbs) : limbs[m] = 0)

(* a * b + c on limbs *)
MultiplyAdd(a, b, c) ==
  Normalize([k \in 1..(IF Len(a) + Len(b) > Len(c) THEN Len(a) + Len(b) ELSE Len(c)) |->
               Sum([i \in 1..Len(a) |->
                      IF k - i + 1 \in 1..Len(b) THEN a[i] * b[k - i + 1] ELSE 0])
               + (IF k <= Len(c) THEN c[k] ELSE 0)])

(* 10000 ^ (2 ^ j) on limbs *)
RECURSIVE TenThousandToThe2ToThe(_)
TenThousandToThe2ToThe(j) ==
  IF j = 0 THEN <<10000 % 4096, 10000 \div 4096>>
  ELSE LET p == TenThousandToThe2ToThe(j - 1) IN MultiplyAdd(p, p, <<>>)

PowersOfTenThousand == [j \in 0..6 |-> TenThousandToThe2ToThe(j)]

(* The limbs of the groups lo to hi of a decimal numeral d of at most 309    *)
(* digits, a group being four digits and the groups counted from the right:  *)
(* the groups are combined by halves.                                        *)
RECURSIVE DecimalToLimbs(_, _, _)
DecimalToLimbs(d, lo, hi) ==
  IF lo = hi
    THEN LET last == Len(d) - 4 * lo + 4
             first == IF last - 3 < 1 THEN 1 ELSE last - 3
             g == Sum([k \in 1..(last - first + 1) |->
                         (d[first + k - 1] - 48) * 10 ^ (last - first + 1 - k)])
         IN  IF g = 0 THEN <<>>
             ELSE IF g < 4096 THEN <<g>>
             ELSE <<g % 4096, g \div 4096>>
  ELSE LET j == CHOOSE j \in 0..6 : 2 ^ j < hi - lo + 1 /\ hi - lo + 1 <= 2 ^ (j + 1)
       IN  MultiplyAdd(DecimalToLimbs(d, lo + 2 ^ j, hi),
                       PowersOfTenThousand[j],
                       DecimalToLimbs(d, lo, lo + 2 ^ j - 1))

(* The binary numeral, most significant bit first, of a number given by its  *)
(* limbs, each of the given width in bits.                                   *)
LimbsToBits(limbs, width) ==
  LET top == limbs[Len(limbs)]
      topBits == CHOOSE b \in 1..width : 2 ^ (b - 1) <= top /\ top < 2 ^ b
      length == width * (Len(limbs) - 1) + topBits
  IN  [p \in 1..length |->
         (limbs[((length - p) \div width) + 1] \div (2 ^ ((length - p) % width))) % 2]

(* The digits of a hexadecimal numeral d, least significant first: its limbs *)
(* of four bits.                                                             *)
HexToLimbs(d) == [k \in 1..Len(d) |-> RadixDigitValue(d[Len(d) - k + 1])]

(* The number bits * 2^shift, negated when neg, as a value: infinite from    *)
(* 2^1024 on.                                                                *)
Scaled(neg, bits, shift) ==
  IF Len(bits) + shift > 1024 THEN (IF neg THEN NegInfinity ELSE PosInfinity)
  ELSE LET last == CHOOSE p \in 1..Len(bits) :
                     bits[p] = 1 /\ \A q \in (p + 1)..Len(bits) : bits[q] = 0
       IN  BigNumber(neg, SubSeq(bits, 1, last), shift + Len(bits) - last)

(* The Number value of the natural number with the binary numeral bits,      *)
(* negated when neg: the nearest number with 53 significant bits, the one    *)
(* with an even last bit when two are equally near.                          *)
RoundToDouble(neg, bits) ==
  IF Len(bits) <= 31
    THEN LET k == Sum([p \in 1..Len(bits) |-> bits[p] * 2 ^ (Len(bits) - p)])
         IN  Num(IF neg THEN 0 - k ELSE k)
  ELSE IF Len(bits) <= 53 THEN Scaled(neg, bits, 0)
  ELSE LET kept == SubSeq(bits, 1, 53)
           up == /\ bits[54] = 1
                 /\ \/ kept[53] = 1
                    \/ \E p \in 55..Len(bits) : bits[p] = 1
       IN  IF ~up THEN Scaled(neg, kept, Len(bits) - 53)
           ELSE IF \A p \in 1..53 : kept[p] = 1 THEN Scaled(neg, <<1>>, Len(bits))
           ELSE LET z == CHOOSE p \in 1..53 :
                           kept[p] = 0 /\ \A q \in (p + 1)..53 : kept[q] = 1
                IN  Scaled(neg, [p \in 1..53 |->
                                   IF p < z THEN kept[p] ELSE IF p = z THEN 1 ELSE 0],
                           Len(bits) - 53)

(* parseInt(v) of a string value with no radix argument: leading white space *)
(* is skipped and an optional sign is read; a following 0x or 0X selects     *)
(* radix 16 and is skipped, otherwise the radix is 10; the value is that of  *)
(* the longest run of digits of the radix, as a Number, NaN when there is    *)
(* none. A numeral of up to 7 hexadecimal or 9 decimal digits is below 2^31; *)
(* one of more than 256 hexadecimal or 309 decimal digits is 2^1024 or more, *)
(* which is Infinity.                                                        *)
parseInt(v) ==
  LET x == trimStart(v.s)
      neg == x # <<>> /\ Head(x) = 45
      signed == x # <<>> /\ Head(x) \in {45, 43}
      unsigned == IF signed THEN Tail(x) ELSE x
      hex == Len(unsigned) >= 2 /\ unsigned[1] = 48 /\ unsigned[2] \in {120, 88}
      radix == IF hex THEN 16 ELSE 10
      d == LeadingDigits(IF hex THEN Tail(Tail(unsigned)) ELSE unsigned, radix)
      z == SignificantDigits(d)
      short == Sum([i \in 1..Len(z) |-> RadixDigitValue(z[i]) * radix ^ (Len(z) - i)])
  IN  IF d = <<>> THEN NaN
      ELSE IF Len(z) <= (IF hex THEN 7 ELSE 9)
        THEN Num(IF neg THEN 0 - short ELSE short)
      ELSE IF Len(z) > (IF hex THEN 256 ELSE 309)
        THEN (IF neg THEN NegInfinity ELSE PosInfinity)
      ELSE IF hex THEN RoundToDouble(neg, LimbsToBits(HexToLimbs(z), 4))
      ELSE RoundToDouble(neg, LimbsToBits(DecimalToLimbs(z, 1, (Len(z) + 3) \div 4), 12))

(* Math.max(...xs) over ids (numbers or -Infinity): -Infinity for no argument. *)
RECURSIVE MathMax(_)
MathMax(xs) ==
  IF xs = <<>> THEN NegInfinity
  ELSE LET m == MathMax(Tail(xs))
           h == Head(xs)
       IN  CASE h.t = "NaN" \/ m.t = "NaN" -> NaN
             [] h.t = "-Infinity" -> m
             [] m.t = "-Infinity" -> h
             [] OTHER -> IF h.n >= m.n THEN h ELSE m

(* x + 1 on a number or -Infinity *)
PlusOne(x) == IF x.t = "number" THEN Num(x.n + 1) ELSE x

(* { ...base, ...input }: every key the input carries overrides the base,    *)
(* a key given as null included.                                             *)
Spread(base, input) ==
  [f \in DOMAIN base |->
     IF f \in DOMAIN input /\ input[f] # Undefined THEN input[f] ELSE base[f]]

(* xs.map(x => x.id) *)
Ids(xs) == [i \in 1..Len(xs) |-> xs[i].id]

(* xs.findIndex(x => x.id === id): 0 stands for -1. *)
findIndex(xs, id) ==
  IF \E i \in 1..Len(xs) : StrictEq(xs[i].id, id)
    THEN CHOOSE i \in 1..Len(xs) :
           StrictEq(xs[i].id, id) /\ \A j \in 1..(i - 1) : ~StrictEq(xs[j].id, id)
    ELSE 0

(* xs.splice(i, 1) *)
splice(xs, i) == SubSeq(xs, 1, i - 1) \o SubSeq(xs, i + 1, Len(xs))

---------------------------------------------------------------------------
(* Seed data *)

(* src/unnamed/part_001 lines 5-11: the seed authors. *)
initialAuthors ==
  <<
    [id |-> Num(1),
     name |-> Str(CodeUnits(<<"K","a","t","e"," ","C","h","o","p","i","n">>)),
     bio |-> Str(CodeUnits(<<"A","m","e","r","i","c","a","n"," ","a","u","t","h","o","r"," ","k","n","o","w","n"," ","f","o","r"," ","h","e","r"," ","f","e","m","i","n","i","s","t"," ","w","r","i","t","i","n","g","s">>)),
     birthYear |-> Num(1850)],
    [id |-> Num(2),
     name |-> Str(CodeUnits(<<"P","a","u","l"," ","A","u","s","t","e","r">>)),
     bio |-> Str(CodeUnits(<<"A","m","e","r","i","c","a","n"," ","w","r","i","t","e","r"," ","k","n","o","w","n"," ","f","o","r"," ","p","o","s","t","m","o","d","e","r","n"," ","f","i","c","t","i","o","n">>)),
     birthYear |-> Num(1947)],
    [id |-> Num(3),
     name |-> Str(CodeUnits(<<"G","e","o","r","g","e"," ","O","r","w","e","l","l">>)),
     bio |-> Str(CodeUnits(<<"E","n","g","l","i","s","h"," ","n","o","v","e","l","i","s","t"," ","a","n","d"," ","e","s","s","a","y","i","s","t",","," ","f","a","m","o","u","s"," ","f","o","r"," ","d","y","s","t","o","p","i","a","n"," ","f","i","c","t","i","o","n">>)),
     birthYear |-> Num(1903)],
    [id |-> Num(4),
     name |-> Str(CodeUnits(<<"H","a","r","p","e","r"," ","L","e","e">>)),
     bio |-> Str(CodeUnits(<<"A","m","e","r","i","c","a","n"," ","n","o","v","e","l","i","s","t"," ","k","n","o","w","n"," ","f","o","r"," ","T","o"," ","K","i","l","l"," ","a"," ","M","o","c","k","i","n","g","b","i","r","d">>)),
     birthYear |-> Num(1926)],
    [id |-> Num(5),
     name |-> Str(CodeUnits(<<"F","."," ","S","c","o","t","t"," ","F","i","t","z","g","e","r","a","l","d">>)),
     bio |-> Str(CodeUnits(<<"A","m","e","r","i","c","a","n"," ","n","o","v","e","l","i","s","t"," ","o","f"," ","t","h","e"," ","J","a","z","z"," ","A","g","e">>)),
     birthYear |-> Num(1896)]
  >>

(* src/unnamed/part_001 lines 13-69: the seed books.  ref = k marks the record as
   the k-th object of the initialBooks array (0: an object created later). *)
SeedBooks ==
  <<
    [ref |-> 1,
     id |-> Num(1),
     title |-> Str(CodeUnits(<<"T","h","e"," ","A","w","a","k","e","n","i","n","g">>)),
     authorId |-> Num(1),
     genre |-> Str(CodeUnits(<<"F","I","C","T","I","O","N">>)),
     publishedYear |-> Num(1899),
     pages |-> Num(183),
     isbn |-> Str(CodeUnits(<<"9","7","8","-","0","4","8","6","2","7","7","8","6","8">>)),
     isAvailable |-> Bool(TRUE),
     summary |-> Str(CodeUnits(<<"A"," ","p","i","o","n","e","e","r","i","n","g"," ","w","o","r","k"," ","o","f"," ","f","e","m","i","n","i","s","t"," ","l","i","t","e","r","a","t","u","r","e"," ","t","h","a","t"," ","e","x","p","l","o","r","e","s"," ","a"," ","w","o","m","a","n","'","s"," ","s","t","r","u","g","g","l","e"," ","f","o","r"," ","i","n","d","e","p","e","n","d","e","n","c","e",".">>))],
    [ref |-> 2,
     id |-> Num(2),
     title |-> Str(CodeUnits(<<"C","i","t","y"," ","o","f"," ","G","l","a","s","s">>)),
     authorId |-> Num(2),
     genre |-> Str(CodeUnits(<<"M","Y","S","T","E","R","Y">>)),
     publishedYear |-> Num(1985),
     pages |-> Num(158),
     isbn |-> Str(CodeUnits(<<"9","7","8","-","0","1","4","0","0","9","7","3","1","3">>)),
     isAvailable |-> Bool(TRUE),
     summary |-> Str(CodeUnits(<<"A"," ","p","o","s","t","m","o","d","e","r","n"," ","d","e","t","e","c","t","i","v","e"," ","s","t","o","r","y"," ","t","h","a","t"," ","b","l","u","r","s"," ","t","h","e"," ","l","i","n","e","s"," ","b","e","t","w","e","e","n"," ","r","e","a","l","i","t","y"," ","a","n","d"," ","f","i","c","t","i","o","n",".">>))],
    [ref |-> 3,
     id |-> Num(3),
     title |-> Str(CodeUnits(<<"1","9","8","4">>)),
     authorId |-> Num(3),
     genre |-> Str(CodeUnits(<<"S","C","I","E","N","C","E","_","F","I","C","T","I","O","N">>)),
     publishedYear |-> Num(1949),
     pages |-> Num(328),
     isbn |-> Str(CodeUnits(<<"9","7","8","-","0","4","5","1","5","2","4","9","3","5">>)),
     isAvailable |-> Bool(FALSE),
     summary |-> Str(CodeUnits(<<"A"," ","d","y","s","t","o","p","i","a","n"," ","v","i","s","i","o","n"," ","o","f"," ","a"," ","t","o","t","a","l","i","t","a","r","i","a","n"," ","f","u","t","u","r","e"," ","w","h","e","r","e"," ","B","i","g"," ","B","r","o","t","h","e","r"," ","w","a","t","c","h","e","s"," ","e","v","e","r","y","o","n","e",".">>))],
    [ref |-> 4,
     id |-> Num(4),
     title |-> Str(CodeUnits(<<"T","o"," ","K","i","l","l"," ","a"," ","M","o","c","k","i","n","g","b","i","r","d">>)),
     authorId |-> Num(4),
     genre |-> Str(CodeUnits(<<"F","I","C","T","I","O","N">>)),
     publishedYear |-> Num(1960),
     pages |-> Num(376),
     isbn |-> Str(CodeUnits(<<"9","7","8","-","0","0","6","1","1","2","0","0","8","4">>)),
     isAvailable |-> Bool(TRUE),
     summary |-> Str(CodeUnits(<<"A"," ","s","t","o","r","y"," ","o","f"," ","r","a","c","i","a","l"," ","i","n","j","u","s","t","i","c","e"," ","a","n","d"," ","c","h","i","l","d","h","o","o","d"," ","i","n","n","o","c","e","n","c","e"," ","i","n"," ","t","h","e"," ","A","m","e","r","i","c","a","n"," ","S","o","u","t","h",".">>))],
    [ref |-> 5,
     id |-> Num(5),
     title |-> Str(CodeUnits(<<"T","h","e"," ","G","r","e","a","t"," ","G","a","t","s","b","y">>)),
     authorId |-> Num(5),
     genre |-> Str(CodeUnits(<<"F","I","C","T","I","O","N">>)),
     publishedYear |-> Num(1925),
     pages |-> Num(180),
     isbn |-> Str(CodeUnits(<<"9","7","8","-","0","7","4","3","2","7","3","5","6","5">>)),
     isAvailable |-> Bool(TRUE),
     summary |-> Str(CodeUnits(<<"A"," ","c","r","i","t","i","q","u","e"," ","o","f"," ","t","h","e"," ","A","m","e","r","i","c","a","n"," ","D","r","e","a","m"," ","s","e","t"," ","i","n"," ","t","h","e"," ","R","o","a","r","i","n","g"," ","T","w","e","n","t","i","e","s",".">>))]
  >>

(* What a request answers when it does not throw. *)
NoError == "none"

---------------------------------------------------------------------------
(* Bounds of the model *)

MaxRequests == 4
MaxBookRequests == 8
MaxQueryRequests == 3
MaxClients == 3

(* The year in which the server starts, and the number of times a run sees   *)
(* the year change.                                                          *)
StartYear == 2026
MaxNewYears == 1

(* new Date().getFullYear(), read from the system clock at every call *)
currentYear == clock

---------------------------------------------------------------------------
(* Helper functions (part_002 lines 8-17) *)

(* isbn.replace(/[-\s]/g, ''): every hyphen and white-space character removed *)
cleanISBN(x) == SelectSeq(x, LAMBDA c : ~(c = 45 \/ IsWhitespace(c)))

validateISBN(isbn) == Len(cleanISBN(isbn.s)) = 10 \/ Len(cleanISBN(isbn.s)) = 13

validateYear(year) ==
  IF year.t = "number" THEN year.n > 0 /\ year.n <= currentYear ELSE FALSE

(* validateISBN of part_001, lines 181-184 *)
data_validateISBN(isbn) == Len(cleanISBN(isbn.s)) = 10 \/ Len(cleanISBN(isbn.s)) = 13

(* validateBookData, part_001 lines 140-164: the list of error messages *)
validateBookData(book) ==
  (IF ~Truthy(book.title) \/ Len(trim(book.title.s)) < 1
     THEN <<"Title is required">> ELSE <<>>)
  \o (IF ~Truthy(book.authorId) THEN <<"Author ID is required">> ELSE <<>>)
  \o (IF Truthy(book.publishedYear)
         /\ (book.publishedYear.n < 1 \/ book.publishedYear.n > currentYear)
        THEN <<"Invalid publication year">> ELSE <<>>)
  \o (IF Truthy(book.pages) /\ book.pages.n <= 0
        THEN <<"Pages must be positive">> ELSE <<>>)
  \o (IF Truthy(book.isbn) /\ ~data_validateISBN(book.isbn)
        THEN <<"Invalid ISBN format">> ELSE <<>>)

---------------------------------------------------------------------------
(* The outcome of a resolver: the error thrown (or NoError), the value      *)
(* returned, and the three arrays as the call leaves them.                  *)

Result(err, ret, a, b, ib) ==
  [err |-> err, ret |-> ret, authors |-> a, books |-> b, initialBooks |-> ib]

Throw(msg) == Result(msg, Undefined, authors, books, initialBooks)

Return(ret, a, b, ib) == Result(NoError, ret, a, b, ib)

(* books.find(book => book.title.toLowerCase() === title.toLowerCase()) *)
TitleTaken(title) ==
  LET lowered == toLowerCase(title.s)
  IN  \E i \in 1..Len(books) :
        books[i].title.t = "string" /\ toLowerCase(books[i].title.s) = lowered

(* The same find throws a TypeError when it comes, before any match, to a    *)
(* book whose title is null (updateBook stores one): null has no toLowerCase. *)
TitleLookupThrows(title) ==
  \E i \in 1..Len(books) :
    /\ books[i].title.t # "string"
    /\ \A j \in 1..(i - 1) : toLowerCase(books[j].title.s) # toLowerCase(title.s)

(* authors.find(author => author.id === id) : the index, 0 when undefined *)
AuthorIndex(id) == findIndex(authors, id)

(* The record addBook builds when no input field has been spread over it. *)
EmptyBook ==
  [ref |-> 0, id |-> Undefined, title |-> Undefined, authorId |-> Undefined,
   genre |-> Undefined, publishedYear |-> Undefined, pages |-> Undefined,
   isbn |-> Undefined, isAvailable |-> Undefined, summary |-> Undefined]

(* part_002 lines 307-312: { id, authorId: parseInt(...), isAvailable: true, ...input } *)
newBook(input) ==
  Spread([EmptyBook EXCEPT !.id = PlusOne(MathMax(Ids(books))),
                           !.authorId = parseInt(input.authorId),
                           !.isAvailable = Bool(TRUE)],
         input)

(* Mutation.addBook, part_002 lines 256-315 *)
addBook(input) ==
  IF TitleLookupThrows(input.title) THEN Throw("TypeError")
  ELSE IF TitleTaken(input.title) THEN Throw("Book title must be unique")
  ELSE IF AuthorIndex(parseInt(input.authorId)) = 0 THEN Throw("Author not found")
  ELSE IF Truthy(input.isbn) /\ ~validateISBN(input.isbn)
    THEN Throw("Invalid ISBN format")
  ELSE IF Truthy(input.publishedYear) /\ ~validateYear(input.publishedYear)
    THEN Throw("Invalid publication year")
  ELSE IF Truthy(input.pages) /\ input.pages.n <= 0
    THEN Throw("Pages must be a positive number")
  ELSE Return(newBook(input), authors, Append(books, newBook(input)), initialBooks)

(* Mutant: the input replaces the record, only the id is kept. *)
updatedBook_replaces(book, input) ==
  LET replaced == [Spread([EmptyBook EXCEPT !.id = book.id], input) EXCEPT !.ref = 0]
  IN  IF Truthy(input.authorId)
        THEN [replaced EXCEPT !.authorId = parseInt(input.authorId)]
        ELSE replaced

(* part_002 lines 328-331: the merged record of updateBook *)
updatedBook(book, input) ==
  LET merged == [Spread(book, input) EXCEPT !.ref = 0]
  IN  IF Truthy(input.authorId)
        THEN [merged EXCEPT !.authorId = parseInt(input.authorId)]
        ELSE merged

(* Mutant: updateBook refuses a title another book has, as addBook does. *)
updateBook_checksTitle(id, input) ==
  LET bookIndex == findIndex(books, parseInt(id))
  IN  IF bookIndex = 0 THEN Throw("Book not found")
      ELSE IF Truthy(input.title) /\ TitleTaken(input.title)
        THEN Throw("Book title must be unique")
      ELSE Return(updatedBook(books[bookIndex], input), authors,
                  [books EXCEPT ![bookIndex] = updatedBook(books[bookIndex], input)],
                  initialBooks)

(* Mutation.updateBook, part_002 lines 317-335 *)
updateBook(id, input) ==
  LET bookIndex == findIndex(books, parseInt(id))
  IN  IF bookIndex = 0 THEN Throw("Book not found")
      ELSE Return(updatedBook(books[bookIndex], input), authors,
                  [books EXCEPT ![bookIndex] = updatedBook(books[bookIndex], input)],
                  initialBooks)

(* Mutant: books.splice(bookIndex) removes the book and all that follow it. *)
deleteBook_spliceToEnd(id) ==
  LET bookIndex == findIndex(books, parseInt(id))
  IN  IF bookIndex = 0 THEN Return(Bool(FALSE), authors, books, initialBooks)
      ELSE Return(Bool(TRUE), authors, SubSeq(books, 1, bookIndex - 1), initialBooks)

(* Mutation.deleteBook, part_002 lines 337-344 *)
deleteBook(id) ==
  LET bookIndex == findIndex(books, parseInt(id))
  IN  IF bookIndex = 0 THEN Return(Bool(FALSE), authors, books, initialBooks)
      ELSE Return(Bool(TRUE), authors, splice(books, bookIndex), initialBooks)

(* Mutation.toggleBookAvailability, part_002 lines 346-355, on the books bs  *)
(* and the seed objects ib: the object is changed in place, so a seed object *)
(* changes in initialBooks as well.                                          *)
toggleBookAvailabilityOn(bs, ib, id) ==
  LET i == findIndex(bs, parseInt(id))
      toggled == [bs[i] EXCEPT !.isAvailable = Not(bs[i].isAvailable)]
  IN  IF i = 0 THEN Result("Book not found", Undefined, authors, bs, ib)
      ELSE Return(toggled, authors, [bs EXCEPT ![i] = toggled],
                  IF bs[i].ref = 0 THEN ib ELSE [ib EXCEPT ![bs[i].ref] = toggled])

toggleBookAvailability(id) == toggleBookAvailabilityOn(books, initialBooks, id)

(* authors.find(author => author.name.toLowerCase() === name.toLowerCase()) *)
NameTaken(name) ==
  \E i \in 1..Len(authors) : toLowerCase(authors[i].name.s) = toLowerCase(name.s)

EmptyAuthor ==
  [id |-> Undefined, name |-> Undefined, bio |-> Undefined, birthYear |-> Undefined]

(* part_002 lines 389-393: { id, ...input, name: input.name.trim() } *)
newAuthor(input) ==
  [Spread([EmptyAuthor EXCEPT !.id = PlusOne(MathMax(Ids(authors)))], input)
     EXCEPT !.name = Str(trim(input.name.s))]

(* Mutation.addAuthor, part_002 lines 358-396 *)
addAuthor(input) ==
  IF NameTaken(input.name) THEN Throw("Author name must be unique")
  ELSE IF Truthy(input.birthYear) /\ ~validateYear(input.birthYear)
    THEN Throw("Invalid birth year")
  ELSE IF Len(trim(input.name.s)) < 2
    THEN Throw("Author name must be at least 2 characters")
  ELSE Return(newAuthor(input), Append(authors, newAuthor(input)), books, initialBooks)

(* Mutation.updateAuthor, part_002 lines 398-411 *)
updateAuthor(id, input) ==
  LET authorIndex == findIndex(authors, parseInt(id))
  IN  IF authorIndex = 0 THEN Throw("Author not found")
      ELSE Return(Spread(authors[authorIndex], input),
                  [authors EXCEPT ![authorIndex] = Spread(authors[authorIndex], input)],
                  books, initialBooks)

(* books.some(book => book.authorId === id) *)
hasBooks(id) == \E i \in 1..Len(books) : StrictEq(books[i].authorId, id)

(* Mutant: the author is spliced out before the books are looked at. *)
deleteAuthor_spliceFirst(id) ==
  LET authorIndex == findIndex(authors, parseInt(id))
  IN  IF authorIndex = 0 THEN Return(Bool(FALSE), authors, books, initialBooks)
      ELSE IF hasBooks(parseInt(id))
        THEN Result("Cannot delete author with existing books", Undefined,
                    splice(authors, authorIndex), books, initialBooks)
      ELSE Return(Bool(TRUE), splice(authors, authorIndex), books, initialBooks)

(* Mutation.deleteAuthor, part_002 lines 413-429 *)
deleteAuthor(id) ==
  LET authorIndex == findIndex(authors, parseInt(id))
  IN  IF authorIndex = 0 THEN Return(Bool(FALSE), authors, books, initialBooks)
      ELSE IF hasBooks(parseInt(id))
        THEN Throw("Cannot delete author with existing books")
      ELSE Return(Bool(TRUE), splice(authors, authorIndex), books, initialBooks)

(* resetData, part_001 lines 72-82: both arrays are emptied and refilled     *)
(* with the seed objects; the lengths are returned.                          *)
resetData ==
  Return([authors |-> Len(initialAuthors), books |-> Len(initialBooks)],
         initialAuthors, initialBooks, initialBooks)

(* Book.author, part_002 lines 440-442: the author found, or Undefined *)
Book_author(parent) ==
  IF \E i \in 1..Len(authors) : StrictEq(authors[i].id, parent.authorId)
    THEN authors[CHOOSE i \in 1..Len(authors) :
                   /\ StrictEq(authors[i].id, parent.authorId)
                   /\ \A j \in 1..(i - 1) : ~StrictEq(authors[j].id, parent.authorId)]
    ELSE Undefined

(* Number.prototype.toString of a natural number *)
RECURSIVE toString(_)
toString(k) ==
  IF k < 10 THEN <<48 + k>>
  ELSE toString(k \div 10) \o <<48 + (k % 10)>>

(* Mutation.resetData, part_002 lines 432-435: the summary sentence *)
Mutation_resetData ==
  LET result == resetData
  IN  Return(Str(CodeUnits(<<"D","a","t","a"," ","r","e","s","e","t"," ","s","u","c","c","e","s","s","f","u","l","l","y","!"," ","R","e","s","t","o","r","e","d"," ">>)
                   \o toString(result.ret.authors)
                   \o CodeUnits(<<" ","a","u","t","h","o","r","s"," ","a","n","d"," ">>)
                   \o toString(result.ret.books)
                   \o CodeUnits(<<" ","b","o","o","k","s",".">>)),
             result.authors, result.books, result.initialBooks)

---------------------------------------------------------------------------
(* Queries and field resolvers (part_002 lines 162-252 and 439-453) *)

(* A resolver that writes nothing: it returns a value, or throws. *)
Reads(value) == Return(value, authors, books, initialBooks)

(* haystack.includes(needle) *)
includes(haystack, needle) ==
  \E k \in 0..(Len(haystack) - Len(needle)) :
    SubSeq(haystack, k + 1, k + Len(needle)) = needle

(* The first element of xs.filter(...), which is what xs.find(...) returns:  *)
(* Undefined when nothing passes.                                            *)
First(xs) == IF xs = <<>> THEN Undefined ELSE Head(xs)

(* String(v) of a number, -Infinity, NaN, null or string, as id.toString() and a *)
(* template literal compute it.                                              *)
String(v) ==
  CASE v.t = "string" -> v.s
    [] v.t = "number" -> IF v.n < 0 THEN CodeUnits(<<"-">>) \o toString(0 - v.n) ELSE toString(v.n)
    [] v.t = "-Infinity" -> CodeUnits(<<"-","I","n","f","i","n","i","t","y">>)
    [] v.t = "NaN" -> CodeUnits(<<"N","a","N">>)
    [] v.t = "null" -> CodeUnits(<<"n","u","l","l">>)
    [] v.t = "boolean" -> IF v.n = 1 THEN CodeUnits(<<"t","r","u","e">>) ELSE CodeUnits(<<"f","a","l","s","e">>)
    [] OTHER -> CodeUnits(<<"u","n","d","e","f","i","n","e","d">>)

(* Query.books, line 164 *)
Query_books == Reads(books)

(* Query.bookCount, line 165 *)
Query_bookCount == Reads(Len(books))

(* Query.findBook, lines 166-169 *)
Query_findBook(title) ==
  Reads(First(SelectSeq(books, LAMBDA book : StrictEq(book.title, title))))

(* Query.bookById, lines 170-172 *)
Query_bookById(id) ==
  Reads(First(SelectSeq(books, LAMBDA book : StrictEq(book.id, parseInt(id)))))

(* Query.authors, line 175 *)
Query_authors == Reads(authors)

(* Query.authorById, lines 176-178 *)
Query_authorById(id) ==
  Reads(First(SelectSeq(authors, LAMBDA author : StrictEq(author.id, parseInt(id)))))

(* Query.authorByName, lines 179-181 *)
Query_authorByName(name) ==
  Reads(First(SelectSeq(authors,
             LAMBDA author : includes(toLowerCase(author.name.s), toLowerCase(name.s)))))

(* Query.booksByGenre, lines 184-186 *)
Query_booksByGenre(genre) ==
  Reads(SelectSeq(books, LAMBDA book : StrictEq(book.genre, genre)))

(* Query.booksByAuthor, lines 187-189 *)
Query_booksByAuthor(authorId) ==
  Reads(SelectSeq(books, LAMBDA book : StrictEq(book.authorId, parseInt(authorId))))

(* Query.booksByYear, lines 190-192 *)
Query_booksByYear(year) ==
  Reads(SelectSeq(books, LAMBDA book : StrictEq(book.publishedYear, year)))

(* Mutant: the unavailable books are spliced out of the live array. *)
Query_availableBooks_splices ==
  Return(SelectSeq(books, LAMBDA book : Truthy(book.isAvailable)), authors,
         SelectSeq(books, LAMBDA book : Truthy(book.isAvailable)), initialBooks)

(* Query.availableBooks, lines 193-195 *)
Query_availableBooks == Reads(SelectSeq(books, LAMBDA book : Truthy(book.isAvailable)))

(* The filter callback of searchBooks, lines 201-202; summary.toLowerCase()  *)
(* is only evaluated when the title does not match.                          *)
TitleMatches(book, query) == includes(toLowerCase(book.title.s), toLowerCase(query.s))

SummaryMatches(book, query) == includes(toLowerCase(book.summary.s), toLowerCase(query.s))

(* Query.searchBooks, lines 198-210: a book without a summary whose title    *)
(* does not match makes book.summary.toLowerCase() throw a TypeError, and so *)
(* does a book whose title is null.                                          *)
Query_searchBooks(query, genre) ==
  LET results == SelectSeq(books, LAMBDA book : TitleMatches(book, query)
                                            \/ SummaryMatches(book, query))
  IN  IF \E i \in 1..Len(books) :
           \/ books[i].title.t # "string"
           \/ ~TitleMatches(books[i], query) /\ books[i].summary.t # "string"
        THEN Throw("TypeError")
      ELSE IF Truthy(genre)
        THEN Reads(SelectSeq(results, LAMBDA book : StrictEq(book.genre, genre)))
      ELSE Reads(results)

Min(a, b) == IF a <= b THEN a ELSE b
Max(a, b) == IF a >= b THEN a ELSE b

(* books.findIndex(book => book.id.toString() === cursor): 0-based, -1 when  *)
(* no book matches.                                                          *)
cursorIndex(cursor) ==
  IF \E i \in 1..Len(books) : String(books[i].id) = cursor.s
    THEN (CHOOSE i \in 1..Len(books) :
            /\ String(books[i].id) = cursor.s
            /\ \A j \in 1..(i - 1) : String(books[j].id) # cursor.s) - 1
    ELSE 0 - 1

(* xs.slice(start, end) with 0-based indices; a negative index counts from   *)
(* the end of the array.                                                     *)
slice(xs, start, end) ==
  LET from == IF start < 0 THEN Max(Len(xs) + start, 0) ELSE Min(start, Len(xs))
      to == IF end < 0 THEN Max(Len(xs) + end, 0) ELSE Min(end, Len(xs))
  IN  SubSeq(xs, from + 1, to)

(* Mutant: the default of first is applied only when last is not supplied. *)
Query_booksPaginated_noDefaultWithLast(firstArg, after, last, before) ==
  LET first == IF firstArg = Undefined /\ last = Undefined THEN Num(2) ELSE firstArg
      start0 == IF Truthy(after) THEN cursorIndex(after) + 1 ELSE 0
      end0 == IF Truthy(before) THEN cursorIndex(before) ELSE Len(books)
      endIndex == IF Truthy(first) THEN Min(start0 + first.n, end0) ELSE end0
      startIndex == IF Truthy(last) THEN Max(endIndex - last.n, start0) ELSE start0
      slicedBooks == slice(books, startIndex, endIndex)
  IN  Reads([edges |-> [i \in 1..Len(slicedBooks) |->
                          [node |-> slicedBooks[i],
                           cursor |-> Str(String(slicedBooks[i].id))]],
             pageInfo |->
               [hasNextPage |-> Bool(endIndex < Len(books)),
                hasPreviousPage |-> Bool(startIndex > 0),
                startCursor |-> IF slicedBooks = <<>> THEN Undefined
                                ELSE Str(String(slicedBooks[1].id)),
                endCursor |-> IF slicedBooks = <<>> THEN Undefined
                              ELSE Str(String(slicedBooks[Len(slicedBooks)].id))],
             totalCount |-> Len(books)])

(* Query.booksPaginated, lines 213-251 *)
Query_booksPaginated(firstArg, after, last, before) ==
  LET first == IF firstArg = Undefined THEN Num(2) ELSE firstArg
      start0 == IF Truthy(after) THEN cursorIndex(after) + 1 ELSE 0
      end0 == IF Truthy(before) THEN cursorIndex(before) ELSE Len(books)
      endIndex == IF Truthy(first) THEN Min(start0 + first.n, end0) ELSE end0
      startIndex == IF Truthy(last) THEN Max(endIndex - last.n, start0) ELSE start0
      slicedBooks == slice(books, startIndex, endIndex)
  IN  Reads([edges |-> [i \in 1..Len(slicedBooks) |->
                          [node |-> slicedBooks[i],
                           cursor |-> Str(String(slicedBooks[i].id))]],
             pageInfo |->
               [hasNextPage |-> Bool(endIndex < Len(books)),
                hasPreviousPage |-> Bool(startIndex > 0),
                startCursor |-> IF slicedBooks = <<>> THEN Undefined
                                ELSE Str(String(slicedBooks[1].id)),
                endCursor |-> IF slicedBooks = <<>> THEN Undefined
                              ELSE Str(String(slicedBooks[Len(slicedBooks)].id))],
             totalCount |-> Len(books)])

(* formatBookData, lines 19-21 *)
formatBookData(book, author) ==
  String(book.title)
  \o CodeUnits(<<" ","b","y"," ">>)
  \o (IF author # Undefined /\ Truthy(author.name)
        THEN String(author.name) ELSE CodeUnits(<<"U","n","k","n","o","w","n"," ","A","u","t","h","o","r">>))
  \o CodeUnits(<<" ","(">>)
  \o (IF Truthy(book.publishedYear)
        THEN String(book.publishedYear) ELSE CodeUnits(<<"U","n","k","n","o","w","n"," ","Y","e","a","r">>))
  \o CodeUnits(<<")">>)

(* Book.fullData, lines 443-446 *)
Book_fullData(parent) == Str(formatBookData(parent, Book_author(parent)))

(* Author.books, lines 450-452 *)
Author_books(parent) == SelectSeq(books, LAMBDA book : StrictEq(book.authorId, parent.id))

(* The client loop of the pagination guide (LEARNING_GUIDE.md, 8.1): call    *)
(* booksPaginated(first: n), then booksPaginated(first: n, after: the        *)
(* previous endCursor) while hasNextPage is true. The loop is cut after      *)
(* `calls` calls; done tells whether it had ended by then.                   *)
RECURSIVE traverse(_, _, _)
traverse(n, after, calls) ==
  LET page == Query_booksPaginated(Num(n), after, Undefined, Undefined).ret
      nodes == [i \in 1..Len(page.edges) |-> page.edges[i].node]
  IN  IF page.pageInfo.hasNextPage = Bool(TRUE) /\ calls > 1
        THEN LET rest == traverse(n, page.pageInfo.endCursor, calls - 1)
             IN  [nodes |-> nodes \o rest.nodes, calls |-> 1 + rest.calls,
                  done |-> rest.done]
        ELSE [nodes |-> nodes, calls |-> 1,
              done |-> page.pageInfo.hasNextPage = Bool(FALSE)]

---------------------------------------------------------------------------
(* The requests the model sends *)

BookInput(title, authorId) ==
  [title |-> Str(title), authorId |-> Str(authorId), genre |-> Undefined,
   publishedYear |-> Undefined, pages |-> Undefined, isbn |-> Undefined,
   summary |-> Undefined]

(* addBook inputs: a new title for a seed author, for the first added author  *)
(* and for no author; the test guide's "Test Book"; taken titles in the seed's *)
(* spelling and in another case; a bad ISBN, year and page count.              *)
BookInputs ==
  {BookInput(CodeUnits(<<"D","u","n","e">>), CodeUnits(<<"1">>)),
   BookInput(CodeUnits(<<"D","u","n","e">>), CodeUnits(<<"6">>)),
   BookInput(CodeUnits(<<"D","u","n","e">>), CodeUnits(<<"9","9","9">>)),
   [BookInput(CodeUnits(<<"T","e","s","t"," ","B","o","o","k">>), CodeUnits(<<"1">>)) EXCEPT
      !.genre = Str(CodeUnits(<<"F","I","C","T","I","O","N">>)), !.pages = Num(200),
      !.summary = Str(CodeUnits(<<"A"," ","b","o","o","k"," ","f","o","r"," ","t","e","s","t","i","n","g">>))],
   BookInput(CodeUnits(<<"1","9","8","4">>), CodeUnits(<<"1">>)),
   BookInput(CodeUnits(<<"1","9","8","4">>), CodeUnits(<<"9","9","9">>)),
   BookInput(CodeUnits(<<"t","h","e"," ","a","w","a","k","e","n","i","n","g">>), CodeUnits(<<"1">>)),
   [BookInput(CodeUnits(<<"T","H","E"," ","G","R","E","A","T"," ","G","A","T","S","B","Y">>), CodeUnits(<<"2">>)) EXCEPT
      !.isbn = Str(CodeUnits(<<"i","n","v","a","l","i","d","-","i","s","b","n">>))],
   [BookInput(CodeUnits(<<"I","S","B","N"," ","T","e","s","t"," ","B","o","o","k">>), CodeUnits(<<"1">>)) EXCEPT
      !.isbn = Str(CodeUnits(<<"i","n","v","a","l","i","d","-","i","s","b","n">>))],
   [BookInput(CodeUnits(<<"D","u","n","e">>), CodeUnits(<<"1">>)) EXCEPT !.publishedYear = Num(StartYear + 1)],
   [BookInput(CodeUnits(<<"D","u","n","e">>), CodeUnits(<<"1">>)) EXCEPT !.pages = Num(0 - 5)]}

BookUpdateInput ==
  [title |-> Undefined, authorId |-> Undefined, genre |-> Undefined,
   publishedYear |-> Undefined, pages |-> Undefined, isbn |-> Undefined,
   summary |-> Undefined, isAvailable |-> Undefined]

(* updateBook inputs: an author that exists, one that does not, the title   *)
(* of another book, and the nullable availability flag given as null.        *)
BookUpdateInputs ==
  {[BookUpdateInput EXCEPT !.authorId = Str(CodeUnits(<<"2">>))],
   [BookUpdateInput EXCEPT !.authorId = Str(CodeUnits(<<"9","9","9">>))],
   [BookUpdateInput EXCEPT !.title = Str(CodeUnits(<<"1","9","8","4">>))],
   [BookUpdateInput EXCEPT !.isAvailable = Null]}

(* An updateBook input that gives the nullable title as null: the queries    *)
(* and addBook then meet a book without a title.                             *)
NullTitleUpdateInputs == {[BookUpdateInput EXCEPT !.title = Null]}

AuthorInput(name) == [name |-> Str(name), bio |-> Undefined, birthYear |-> Undefined]

AuthorInputs ==
  {AuthorInput(CodeUnits(<<" ","A","n","n"," ">>)),
   AuthorInput(CodeUnits(<<"g","e","o","r","g","e"," ","o","r","w","e","l","l">>)),
   AuthorInput(CodeUnits(<<"X">>)),
   [AuthorInput(CodeUnits(<<"B","o","b">>)) EXCEPT !.birthYear = Num(StartYear + 1)]}

AuthorUpdateInputs == {AuthorInput(CodeUnits(<<"E","r","i","c"," ","B","l","a","i","r">>))}

BookIdArgs ==
  {Str(CodeUnits(<<"1">>)), Str(CodeUnits(<<"2">>)), Str(CodeUnits(<<"3">>)), Str(CodeUnits(<<"4">>)), Str(CodeUnits(<<"5">>)),
   Str(CodeUnits(<<"6">>)), Str(CodeUnits(<<"9","9","9">>))}
UpdateBookIdArgs == {Str(CodeUnits(<<"1">>)), Str(CodeUnits(<<"9","9","9">>))}
ToggleIdArgs == {Str(CodeUnits(<<"3">>)), Str(CodeUnits(<<"6">>)), Str(CodeUnits(<<"9","9","9">>))}
DeleteAuthorIdArgs == {Str(CodeUnits(<<"1">>)), Str(CodeUnits(<<"2">>)), Str(CodeUnits(<<"6">>)), Str(CodeUnits(<<"9","9","9">>))}
UpdateAuthorIdArgs == {Str(CodeUnits(<<"3">>)), Str(CodeUnits(<<"9","9","9">>))}

(* Values of the optional fields of an addBook input that the validation    *)
(* properties try, on a book with a title not otherwise used.               *)
YearValues == {0 - 1, 0, 1, 1949, StartYear, StartYear + 1, currentYear, currentYear + 1}
PagesValues == {0 - 5, 0, 1, 200}
IsbnValues ==
  {CodeUnits(<<"i","n","v","a","l","i","d","-","i","s","b","n">>), <<>>, CodeUnits(<<" ","-"," ">>), CodeUnits(<<"1","2","3">>),
   CodeUnits(<<"0","-","3","0","6","-","4","0","6","1","5","-","2">>), CodeUnits(<<"9","7","8","-","0","4","8","6","2","7","7","8","6","8">>), CodeUnits(<<"9","7","8"," ","0"," ","3","0","6"," ","4","0","6","1","5"," ","7">>),
   (CodeUnits(<<"9","7","8">>) \o <<9>> \o CodeUnits(<<"0","3","0","6","4","0","6","1","5","7">>)), (CodeUnits(<<"0">>) \o <<10>> \o CodeUnits(<<"3","0","6","4","0","6","1","5","2">>)),
   CodeUnits(<<"0"," ","3","0","6","4","0","6","1","5","2">>), (CodeUnits(<<"1","2","3">>) \o <<9, 9, 9, 9, 9, 9, 9>>)}
ValidatedInput == BookInput(CodeUnits(<<"B","r","a","v","e"," ","N","e","w"," ","W","o","r","l","d">>), CodeUnits(<<"1">>))

(* addBook inputs that fail several checks at once: a taken or a free title, *)
(* a known or an unknown author, and each optional field omitted or invalid. *)
OrderInputs ==
  {[BookInput(title, authorId) EXCEPT !.isbn = isbn, !.publishedYear = year, !.pages = pages] :
     title \in {CodeUnits(<<"B","r","a","v","e"," ","N","e","w"," ","W","o","r","l","d">>), CodeUnits(<<"1","9","8","4">>)},
     authorId \in {CodeUnits(<<"1">>), CodeUnits(<<"9","9","9">>)},
     isbn \in {Undefined, Str(CodeUnits(<<"i","n","v","a","l","i","d","-","i","s","b","n">>)), Str(<<>>)},
     year \in {Undefined, Num(currentYear + 1), Num(0)},
     pages \in {Undefined, Num(0 - 5), Num(0)}}

(* addAuthor inputs that fail several checks at once: a seed name, a name of *)
(* one character, a padded and a bare new name, each with the birth year     *)
(* omitted, valid or in the future.                                          *)
AuthorOrderInputs ==
  {[AuthorInput(name) EXCEPT !.birthYear = year] :
     name \in {CodeUnits(<<"g","e","o","r","g","e"," ","o","r","w","e","l","l">>), CodeUnits(<<"X">>), CodeUnits(<<" ","A","n","n"," ">>), CodeUnits(<<"A","n","n">>)},
     year \in {Undefined, Num(1950), Num(currentYear + 1)}}

(* updateBook inputs that the update properties try: the inputs sent, the   *)
(* empty input, an authorId of 1 + 2^53, several fields at once, values     *)
(* addBook would refuse, and null for the author and the summary.           *)
BookUpdateProbes ==
  BookUpdateInputs
  \cup NullTitleUpdateInputs
  \cup {BookUpdateInput,
        [BookUpdateInput EXCEPT !.isAvailable = Bool(FALSE)],
        [BookUpdateInput EXCEPT !.authorId = Null, !.summary = Null],
        [BookUpdateInput EXCEPT
           !.authorId = Str(CodeUnits(<<"0","x","2","0","0","0","0","0","0","0","0","0","0","0","0","1">>))],
        [BookUpdateInput EXCEPT !.title = Str(CodeUnits(<<"c","i","t","y"," ","o","f"," ","g","l","a","s","s">>)), !.publishedYear = Num(currentYear + 1)],
        [BookUpdateInput EXCEPT !.isbn = Str(CodeUnits(<<"i","n","v","a","l","i","d","-","i","s","b","n">>)), !.pages = Num(0 - 5)],
        [BookUpdateInput EXCEPT !.genre = Str(CodeUnits(<<"M","Y","S","T","E","R","Y">>)), !.summary = Str(CodeUnits(<<"N","e","w"," ","s","u","m","m","a","r","y">>))]}

(* updateAuthor inputs: a new name, another author's name, a name of one     *)
(* character, a birth year in the future, a null bio and birth year.         *)
AuthorUpdateProbes ==
  AuthorUpdateInputs
  \cup {AuthorInput(CodeUnits(<<"H","a","r","p","e","r"," ","L","e","e">>)),
        AuthorInput(CodeUnits(<<"X">>)),
        [AuthorInput(CodeUnits(<<"E","r","i","c"," ","B","l","a","i","r">>)) EXCEPT !.birthYear = Num(currentYear + 1)],
        [AuthorInput(CodeUnits(<<"E","r","i","c"," ","B","l","a","i","r">>)) EXCEPT !.bio = Null, !.birthYear = Null]}

(* Requests whose strings are not plain ASCII words and decimal numbers: a   *)
(* French title in either case; a Greek title ending in sigma, in capitals   *)
(* and in small letters; an authorId in hexadecimal and one with trailing    *)
(* letters; an ISBN separated by tabs; the title of seed book 4 spelt with   *)
(* the Kelvin sign (U+212A) for its K; the archaic Greek letter koppa in     *)
(* capital (U+03D8) and small (U+03D9) form; an authorId that is 1 + 2^53.   *)
TextBookInputs ==
  {BookInput((<<233>> \o CodeUnits(<<"c","o","l","e">>)), CodeUnits(<<"1">>)),
   BookInput((<<201>> \o CodeUnits(<<"C","O","L","E">>)), CodeUnits(<<"2">>)),
   BookInput(<<959, 948, 959, 963>>, CodeUnits(<<"1">>)),
   BookInput(<<927, 916, 927, 931>>, CodeUnits(<<"1">>)),
   BookInput(CodeUnits(<<"D","u","n","e">>), CodeUnits(<<"0","x","1">>)),
   [BookInput(CodeUnits(<<"E","m","m","a">>), CodeUnits(<<"2","a","b","c">>)) EXCEPT
      !.isbn = Str((CodeUnits(<<"9","7","8">>) \o <<9>> \o CodeUnits(<<"0","3","0","6","4","0","6","1","5","7">>)))],
   BookInput((CodeUnits(<<"T","o"," ">>) \o <<8490>> \o CodeUnits(<<"i","l","l"," ","a"," ","M","o","c","k","i","n","g","b","i","r","d">>)), CodeUnits(<<"1">>)),
   BookInput(<<984>>, CodeUnits(<<"1">>)),
   BookInput(<<985>>, CodeUnits(<<"1">>)),
   BookInput(CodeUnits(<<"N","a","n","a">>),
             CodeUnits(<<"9","0","0","7","1","9","9","2","5","4","7","4","0","9","9","3">>))}

(* Author names padded with a tab and a line feed, with no-break spaces, and *)
(* a seed name in capitals behind a tab.                                     *)
TextAuthorInputs ==
  {AuthorInput((<<9>> \o CodeUnits(<<"Z","o","l","a">>) \o <<10>>)),
   AuthorInput((<<160, 201>> \o CodeUnits(<<"m","i","l","e">>) \o <<160>>)),
   AuthorInput((<<9>> \o CodeUnits(<<"G","E","O","R","G","E"," ","O","R","W","E","L","L">>)))}

(* ID arguments that are not the decimal spelling of a number: hexadecimal,  *)
(* behind white space, followed by letters, and no number at all; and ids    *)
(* beyond 2^31 and beyond the integers a double holds exactly: 1 + 2^32 and  *)
(* 1 + 2^53 in hexadecimal, minus 257 hexadecimal digits f, minus 310        *)
(* decimal digits 9.                                                         *)
TextIdArgs ==
  {Str(CodeUnits(<<"0","x","1">>)), Str((<<9>> \o CodeUnits(<<"2">>))), Str(CodeUnits(<<"3","a","b","c">>)),
   Str(CodeUnits(<<"0","x">>)), Str(CodeUnits(<<"a","b","c">>)), Str(CodeUnits(<<"6">>)),
   Str(CodeUnits(<<"0","x","1","0","0","0","0","0","0","0","1">>)),
   Str(CodeUnits(<<"0","x","2","0","0","0","0","0","0","0","0","0","0","0","0","1">>)),
   Str(CodeUnits(<<"-","0","x">>) \o [i \in 1..257 |-> 102]),
   Str(<<45>> \o [i \in 1..310 |-> 57])}

(* An id below every double: parseInt gives -Infinity, the id addBook gives *)
(* a book added to an empty list.                                            *)
InfiniteIdArgs == {Str(CodeUnits(<<"-","0","x">>) \o [i \in 1..257 |-> 102])}

(* Arguments of the queries *)
TitleArgs == {Str(CodeUnits(<<"1","9","8","4">>)), Str(CodeUnits(<<"D","u","n","e">>))}
NameArgs == {Str(CodeUnits(<<"o","r","w","e","l","l">>)), Str(CodeUnits(<<"A","N","N">>))}
GenreArgs == {Str(CodeUnits(<<"F","I","C","T","I","O","N">>)), Str(CodeUnits(<<"M","Y","S","T","E","R","Y">>))}
YearArgs == {Num(1949), Num(StartYear)}
SearchArgs == {Str(CodeUnits(<<"t","h","e">>)), Str(CodeUnits(<<"D","u","n","e">>))}
FirstArgs == {Undefined, Num(0), Num(2)}
LastArgs == {Undefined, Num(1)}
CursorArgs == {Undefined, Str(CodeUnits(<<"2">>)), Str(CodeUnits(<<"9","9","9">>))}

---------------------------------------------------------------------------
(* The state machine *)

IdSet(xs) == {xs[i].id : i \in 1..Len(xs)}

(* The clients whose requests reach the server at the same time. *)
Clients == 1..MaxClients

NoRequest == [op |-> "none", arg |-> Undefined]
NoReply == [op |-> "none", err |-> NoError, ret |-> Undefined]

(* One resolver call: the arrays become what the resolver left. *)
Apply(op, r) ==
  /\ requests' = requests + 1
  /\ authors' = r.authors
  /\ books' = r.books
  /\ initialBooks' = r.initialBooks
  /\ seenBookIds' = IF op = "resetData" THEN IdSet(r.books)
                    ELSE seenBookIds \cup IdSet(r.books)
  /\ seenAuthorIds' = IF op = "resetData" THEN IdSet(r.authors)
                      ELSE seenAuthorIds \cup IdSet(r.authors)

(* The server answers one request that arrived alone. *)
Answer(op, r) == Apply(op, r) /\ UNCHANGED <<inflight, replies, clock>>

Init ==
  /\ authors = initialAuthors
  /\ books = SeedBooks
  /\ initialBooks = SeedBooks
  /\ seenBookIds = IdSet(SeedBooks)
  /\ seenAuthorIds = IdSet(initialAuthors)
  /\ requests = 0
  /\ inflight = [c \in Clients |-> NoRequest]
  /\ replies = [c \in Clients |-> NoReply]
  /\ clock = StartYear

(* One action per mutation; limit bounds the number of requests of a run,    *)
(* inputs and ids are the arguments the requests of the run carry.           *)
AddBook(limit, inputs) ==
  /\ requests < limit
  /\ \E input \in inputs : Answer("addBook", addBook(input))

UpdateBook(limit, inputs) ==
  /\ requests < limit
  /\ \E id \in UpdateBookIdArgs, input \in inputs :
       Answer("updateBook", updateBook(id, input))

DeleteBook(limit, ids) ==
  /\ requests < limit
  /\ \E id \in ids : Answer("deleteBook", deleteBook(id))

ToggleBookAvailability(limit) ==
  /\ requests < limit
  /\ \E id \in ToggleIdArgs :
       Answer("toggleBookAvailability", toggleBookAvailability(id))

AddAuthor(limit, inputs) ==
  /\ requests < limit
  /\ \E input \in inputs : Answer("addAuthor", addAuthor(input))

UpdateAuthor(limit) ==
  /\ requests < limit
  /\ \E id \in UpdateAuthorIdArgs, input \in AuthorUpdateInputs :
       Answer("updateAuthor", updateAuthor(id, input))

DeleteAuthor(limit) ==
  /\ requests < limit
  /\ \E id \in DeleteAuthorIdArgs : Answer("deleteAuthor", deleteAuthor(id))

ResetData(limit) ==
  /\ requests < limit
  /\ Answer("resetData", Mutation_resetData)

(* A query or a field resolver answers without being counted as a mutation  *)
(* request; the arrays become what the resolver left.                       *)
AnswerQuery(r) ==
  /\ authors' = r.authors
  /\ books' = r.books
  /\ initialBooks' = r.initialBooks
  /\ UNCHANGED <<seenBookIds, seenAuthorIds, requests, inflight, replies, clock>>

Books == AnswerQuery(Query_books)
BookCount == AnswerQuery(Query_bookCount)
FindBook == \E title \in TitleArgs : AnswerQuery(Query_findBook(title))
BookById == \E id \in BookIdArgs : AnswerQuery(Query_bookById(id))
Authors == AnswerQuery(Query_authors)
AuthorById == \E id \in DeleteAuthorIdArgs : AnswerQuery(Query_authorById(id))
AuthorByName == \E name \in NameArgs : AnswerQuery(Query_authorByName(name))
BooksByGenre == \E genre \in GenreArgs : AnswerQuery(Query_booksByGenre(genre))
BooksByAuthor == \E id \in DeleteAuthorIdArgs : AnswerQuery(Query_booksByAuthor(id))
BooksByYear == \E year \in YearArgs : AnswerQuery(Query_booksByYear(year))
AvailableBooks == AnswerQuery(Query_availableBooks)
SearchBooks ==
  \E query \in SearchArgs, genre \in GenreArgs \cup {Undefined} :
    AnswerQuery(Query_searchBooks(query, genre))
BooksPaginated ==
  \E first \in FirstArgs, after \in CursorArgs, last \in LastArgs, before \in CursorArgs :
    AnswerQuery(Query_booksPaginated(first, after, last, before))
BookAuthor == \E i \in 1..Len(books) : AnswerQuery(Reads(Book_author(books[i])))
BookFullData == \E i \in 1..Len(books) : AnswerQuery(Reads(Book_fullData(books[i])))
AuthorBooks == \E j \in 1..Len(authors) : AnswerQuery(Reads(Author_books(authors[j])))

(* Every query and field resolver. *)
Query ==
  \/ Books
  \/ BookCount
  \/ FindBook
  \/ BookById
  \/ Authors
  \/ AuthorById
  \/ AuthorByName
  \/ BooksByGenre
  \/ BooksByAuthor
  \/ BooksByYear
  \/ AvailableBooks
  \/ SearchBooks
  \/ BooksPaginated
  \/ BookAuthor
  \/ BookFullData
  \/ AuthorBooks

(* Every mutation, in any order. *)
Next ==
  \/ AddBook(MaxRequests, BookInputs)
  \/ UpdateBook(MaxRequests, BookUpdateInputs)
  \/ DeleteBook(MaxRequests, BookIdArgs)
  \/ ToggleBookAvailability(MaxRequests)
  \/ AddAuthor(MaxRequests, AuthorInputs)
  \/ UpdateAuthor(MaxRequests)
  \/ DeleteAuthor(MaxRequests)
  \/ ResetData(MaxRequests)

Spec == Init /\ [][Next]_vars

(* Longer runs of the requests that add and remove books. *)
BookNext ==
  \/ AddBook(MaxBookRequests, BookInputs)
  \/ DeleteBook(MaxBookRequests, BookIdArgs \cup InfiniteIdArgs)
  \/ ResetData(MaxBookRequests)

BookSpec == Init /\ [][BookNext]_vars

(* Every mutation and every query, in any order. *)
QueryNext ==
  \/ Query
  \/ AddBook(MaxQueryRequests, BookInputs)
  \/ UpdateBook(MaxQueryRequests, BookUpdateInputs \cup NullTitleUpdateInputs)
  \/ DeleteBook(MaxQueryRequests, BookIdArgs)
  \/ ToggleBookAvailability(MaxQueryRequests)
  \/ AddAuthor(MaxQueryRequests, AuthorInputs)
  \/ UpdateAuthor(MaxQueryRequests)
  \/ DeleteAuthor(MaxQueryRequests)
  \/ ResetData(MaxQueryRequests)

QuerySpec == Init /\ [][QueryNext]_vars

(* The requests that clients send at the same time: addBook with a new       *)
(* title, the same title in another case, another new title, and deleteBook  *)
(* of the id the first new book gets.                                        *)
ConcurrentRequests ==
  {[op |-> "addBook", arg |-> BookInput(CodeUnits(<<"D","u","n","e">>), CodeUnits(<<"1">>))],
   [op |-> "addBook", arg |-> BookInput(CodeUnits(<<"D","U","N","E">>), CodeUnits(<<"2">>))],
   [op |-> "addBook", arg |-> BookInput(CodeUnits(<<"T","e","s","t"," ","B","o","o","k">>), CodeUnits(<<"1">>))],
   [op |-> "deleteBook", arg |-> Str(CodeUnits(<<"6">>))]}

(* A request arrives. All requests of a run arrive before the first of them  *)
(* is resolved, so any two of them are concurrent.                           *)
Submit(c) ==
  /\ inflight[c] = NoRequest
  /\ \A d \in Clients : replies[d] = NoReply
  /\ \E request \in ConcurrentRequests : inflight' = [inflight EXCEPT ![c] = request]
  /\ UNCHANGED <<authors, books, initialBooks, seenBookIds, seenAuthorIds, requests,
                 replies, clock>>

(* The resolver of a pending request: a synchronous function (no resolver of *)
(* part_002 awaits), so the event loop runs it from its checks to its write  *)
(* in one step, in any order among the pending requests.                     *)
Resolve(c) ==
  /\ inflight[c] # NoRequest
  /\ LET request == inflight[c]
         r == IF request.op = "addBook" THEN addBook(request.arg)
              ELSE deleteBook(request.arg)
     IN  /\ Apply(request.op, r)
         /\ replies' = [replies EXCEPT ![c] = [op |-> request.op, err |-> r.err, ret |-> r.ret]]
  /\ inflight' = [inflight EXCEPT ![c] = NoRequest]
  /\ UNCHANGED clock

ConcurrentNext == \E c \in Clients : Submit(c) \/ Resolve(c)

ConcurrentSpec == Init /\ [][ConcurrentNext]_vars

(* Every mutation except updateBook. *)
NoUpdateBookNext ==
  \/ AddBook(MaxRequests, BookInputs)
  \/ DeleteBook(MaxRequests, BookIdArgs)
  \/ ToggleBookAvailability(MaxRequests)
  \/ AddAuthor(MaxRequests, AuthorInputs)
  \/ UpdateAuthor(MaxRequests)
  \/ DeleteAuthor(MaxRequests)
  \/ ResetData(MaxRequests)

NoUpdateBookSpec == Init /\ [][NoUpdateBookNext]_vars

(* The year changes between two requests. *)
NewYear ==
  /\ clock < StartYear + MaxNewYears
  /\ clock' = clock + 1
  /\ UNCHANGED <<authors, books, initialBooks, seenBookIds, seenAuthorIds, requests,
                 inflight, replies>>

(* The requests that validate a year, on a server that runs into a new year. *)
ClockNext ==
  \/ AddBook(MaxRequests, BookInputs)
  \/ AddAuthor(MaxRequests, AuthorInputs)
  \/ NewYear

ClockSpec == Init /\ [][ClockNext]_vars

(* The requests that carry text in other alphabets, white space other than   *)
(* the space, and ids that are not in decimal spelling.                      *)
TextNext ==
  \/ AddBook(MaxRequests, TextBookInputs)
  \/ DeleteBook(MaxRequests, TextIdArgs)
  \/ AddAuthor(MaxRequests, TextAuthorInputs)

TextSpec == Init /\ [][TextNext]_vars

---------------------------------------------------------------------------
(* Vocabulary of the properties *)

(* The number an authorId stands for, whether it is stored as a number or as *)
(* the string of an ID argument.                                             *)
NumericValue(v) == IF v.t = "string" THEN parseInt(v) ELSE v

(* The book refers to the author: its authorId names the author's id. *)
References(book, author) ==
  author.id.t = "number" /\ NumericValue(book.authorId) = author.id

(* The ID argument is the decimal spelling of the entity's id. *)
Names(arg, entity) ==
  entity.id.t = "number" /\ entity.id.n >= 0 /\ toString(entity.id.n) = arg.s

(* Two code units are the same letter in either case, or the same code unit. *)
SameLetter(c, d) == LowerChar(c) = LowerChar(d)

(* Two strings are equal under case-insensitive comparison. *)
SameIgnoringCase(x, y) ==
  Len(x) = Len(y) /\ \A k \in 1..Len(x) : SameLetter(x[k], y[k])

(* The resolver left the three arrays as they were. *)
StoreUnchanged(r) ==
  r.authors = authors /\ r.books = books /\ r.initialBooks = initialBooks

IsSeedStore == authors = initialAuthors /\ books = SeedBooks

---------------------------------------------------------------------------
(* Properties *)

(* C1: in every reachable state every book's authorId is the id of an author *)
(* currently in the authors collection (referential integrity).              *)
C1_ReferentialIntegrity ==
  \A i \in 1..Len(books) : \E j \in 1..Len(authors) : References(books[i], authors[j])

(* C2: in every reachable state deleteAuthor(id) on an existing author that  *)
(* at least one book refers to raises 'Cannot delete author with existing    *)
(* books' and leaves the authors and the books unchanged.                    *)
C2_DeleteReferencedAuthorRejected ==
  \A id \in DeleteAuthorIdArgs :
    \A j \in 1..Len(authors) :
      (/\ Names(id, authors[j])
       /\ \E i \in 1..Len(books) : References(books[i], authors[j]))
      => LET r == deleteAuthor(id)
         IN  /\ r.err = "Cannot delete author with existing books"
             /\ StoreUnchanged(r)

(* C3: after a successful addBook(input) the `author` field of the new book  *)
(* resolves to the author whose id is input.authorId, never to undefined;    *)
(* and every book in the list whose author exists resolves to that author.   *)
C3_NewBookResolvesAuthor ==
  /\ \A input \in BookInputs :
       LET r == addBook(input)
       IN  r.err = NoError
           => (/\ Book_author(r.ret) # Undefined
               /\ Book_author(r.ret).id = parseInt(input.authorId))
  /\ \A i \in 1..Len(books) :
       \A j \in 1..Len(authors) :
         References(books[i], authors[j]) => Book_author(books[i]) = authors[j]

(* C4: resetData, whatever the mutations before it, leaves the store holding *)
(* exactly the 5 seed authors and the 5 seed books, in seed order, with      *)
(* their original ids and every field as at start-up, and its summary        *)
(* reports 5 authors and 5 books.                                            *)
C4_ResetRestoresSeed ==
  LET r == Mutation_resetData
  IN  /\ r.err = NoError
      /\ r.authors = initialAuthors
      /\ Len(r.authors) = 5
      /\ Len(r.books) = 5
      /\ \A i \in 1..Len(r.books) :
           /\ r.books[i].ref = i
           /\ r.books[i].id = Num(i)
           /\ r.books[i] = SeedBooks[i]
      /\ r.ret = Str(CodeUnits(<<"D","a","t","a"," ","r","e","s","e","t"," ","s","u","c","c","e","s","s","f","u","l","l","y","!"," ","R","e","s","t","o","r","e","d"," ","5"," ","a","u","t","h","o","r","s"," ","a","n","d"," ","5"," ","b","o","o","k","s",".">>))

(* C5: whenever a mutation raises an error, the authors and the books (and   *)
(* the seed objects) after the call are identical to those before it.        *)
C5_ErrorsLeaveStoreUnchanged ==
  /\ \A input \in BookInputs \cup TextBookInputs :
       LET r == addBook(input) IN r.err # NoError => StoreUnchanged(r)
  /\ \A id \in UpdateBookIdArgs \cup TextIdArgs, input \in BookUpdateInputs :
       LET r == updateBook(id, input) IN r.err # NoError => StoreUnchanged(r)
  /\ \A id \in ToggleIdArgs \cup TextIdArgs :
       LET r == toggleBookAvailability(id) IN r.err # NoError => StoreUnchanged(r)
  /\ \A input \in AuthorInputs \cup TextAuthorInputs :
       LET r == addAuthor(input) IN r.err # NoError => StoreUnchanged(r)
  /\ \A id \in UpdateAuthorIdArgs \cup TextIdArgs, input \in AuthorUpdateInputs :
       LET r == updateAuthor(id, input) IN r.err # NoError => StoreUnchanged(r)
  /\ \A id \in DeleteAuthorIdArgs \cup TextIdArgs :
       LET r == deleteAuthor(id) IN r.err # NoError => StoreUnchanged(r)

(* C5 witness: a store changed by earlier mutations in which deleteAuthor,   *)
(* addBook, addAuthor, updateBook, updateAuthor and toggleBookAvailability   *)
(* each raise for some argument.                                             *)
C5_Witness_ErrorsAfterMutations ==
  /\ ~IsSeedStore
  /\ \E id \in DeleteAuthorIdArgs :
       deleteAuthor(id).err = "Cannot delete author with existing books"
  /\ \E input \in BookInputs : addBook(input).err = "Invalid ISBN format"
  /\ \E input \in AuthorInputs : addAuthor(input).err = "Author name must be unique"
  /\ \E id \in UpdateBookIdArgs, input \in BookUpdateInputs :
       updateBook(id, input).err = "Book not found"
  /\ \E id \in UpdateAuthorIdArgs, input \in AuthorUpdateInputs :
       updateAuthor(id, input).err = "Author not found"
  /\ \E id \in ToggleIdArgs : toggleBookAvailability(id).err = "Book not found"

(* C6: addBook with a title that equals, case-insensitively, the title of a  *)
(* book currently in the collection raises 'Book title must be unique' and   *)
(* leaves the books unchanged, whatever the other input fields are.          *)
C6_DuplicateTitleRejected ==
  \A input \in BookInputs \cup TextBookInputs :
    (\E i \in 1..Len(books) : SameIgnoringCase(books[i].title.s, input.title.s))
    => LET r == addBook(input)
       IN  r.err = "Book title must be unique" /\ r.books = books

(* C7: addBook with a title no book has and an authorId that names no author *)
(* currently in the collection raises 'Author not found' and adds no book;   *)
(* also when the authorId is that of an author deleted earlier.              *)
C7_UnknownAuthorRejected ==
  \A input \in BookInputs \cup TextBookInputs :
    (/\ \A i \in 1..Len(books) : ~SameIgnoringCase(books[i].title.s, input.title.s)
     /\ \A j \in 1..Len(authors) : ~Names(input.authorId, authors[j]))
    => LET r == addBook(input)
       IN  r.err = "Author not found" /\ r.books = books

(* C8: in every reachable state a valid addBook appends exactly one record   *)
(* at the end of the books list, with isAvailable = true and an integer id   *)
(* exactly one greater than the maximum book id present before the call.     *)
C8_AddBookAppendsNextId ==
  \A input \in BookInputs :
    LET r == addBook(input)
    IN  r.err = NoError
        => (/\ r.books = Append(books, r.ret)
            /\ r.authors = authors
            /\ r.ret.isAvailable = Bool(TRUE)
            /\ r.ret.id.t = "number"
            /\ \A i \in 1..Len(books) :
                 books[i].id.t = "number" /\ books[i].id.n < r.ret.id.n
            /\ books # <<>>
               => \E i \in 1..Len(books) : books[i].id.n + 1 = r.ret.id.n)

(* C9: between two resets no identifier is assigned twice: the id addBook    *)
(* (addAuthor) gives to a new book (author) was never the id of a book       *)
(* (author) that existed earlier in the period, deleted ones included.       *)
C9_IdsNeverReused ==
  /\ \A input \in BookInputs :
       LET r == addBook(input) IN r.err = NoError => r.ret.id \notin seenBookIds
  /\ \A input \in AuthorInputs :
       LET r == addAuthor(input) IN r.err = NoError => r.ret.id \notin seenAuthorIds

(* C10: in every reachable state all books have pairwise distinct integer    *)
(* ids and all authors have pairwise distinct integer ids.                   *)
C10_IdsDistinctIntegers ==
  /\ \A i \in 1..Len(books) : books[i].id.t = "number"
  /\ \A i, j \in 1..Len(books) : i # j => books[i].id # books[j].id
  /\ \A i \in 1..Len(authors) : authors[i].id.t = "number"
  /\ \A i, j \in 1..Len(authors) : i # j => authors[i].id # authors[j].id

(* C11: toggleBookAvailability is an involution: on an existing book id,   *)
(* applying it twice in a row flips the flag and flips it back, and leaves   *)
(* the whole store as it was before the first call.                          *)
C11_ToggleIsInvolution ==
  \A id \in BookIdArgs :
    LET once == toggleBookAvailability(id)
        twice == toggleBookAvailabilityOn(once.books, once.initialBooks, id)
    IN  once.err = NoError
        => (/\ once.ret.isAvailable # books[findIndex(books, parseInt(id))].isAvailable
            /\ twice.err = NoError
            /\ twice.authors = authors
            /\ twice.books = books
            /\ twice.initialBooks = initialBooks)

(* The page sizes the paging properties are checked for. *)
PageSizes == 1..3

Nodes(page) == [i \in 1..Len(page.edges) |-> page.edges[i].node]

(* C12: forward paging. For every page size n > 0, booksPaginated(first: n)  *)
(* returns the first min(n, L) books of the list, each edge's cursor is the  *)
(* stringified id of its book, hasNextPage = (n < L) and endCursor is the    *)
(* cursor of the last edge; the call with after = that endCursor and         *)
(* first = n returns the next min(n, remaining) books in list order with     *)
(* hasPreviousPage = true.                                                   *)
C12_ForwardPaging ==
  \A n \in PageSizes :
    LET L == Len(books)
        k == Min(n, L)
        page1 == Query_booksPaginated(Num(n), Undefined, Undefined, Undefined).ret
    IN  /\ Nodes(page1) = SubSeq(books, 1, k)
        /\ \A i \in 1..Len(page1.edges) :
             page1.edges[i].cursor = Str(String(page1.edges[i].node.id))
        /\ page1.pageInfo.hasNextPage = Bool(n < L)
        /\ k > 0 =>
             /\ page1.pageInfo.endCursor = page1.edges[k].cursor
             /\ LET page2 == Query_booksPaginated(Num(n), page1.pageInfo.endCursor,
                                                  Undefined, Undefined).ret
                IN  /\ Nodes(page2) = SubSeq(books, k + 1, Min(k + n, L))
                    /\ page2.pageInfo.hasPreviousPage = Bool(TRUE)

(* C13: author names are unique at creation. After any successful addAuthor  *)
(* the name stored for the new author (the trimmed input) equals, under      *)
(* case-insensitive comparison, the name of no author that was already in    *)
(* the collection.                                                           *)
C13_NewAuthorNameUnique ==
  \A input \in AuthorInputs :
    LET r == addAuthor(input)
    IN  r.err = NoError
        => \A i \in 1..Len(authors) : ~SameIgnoringCase(authors[i].name.s, r.ret.name.s)

(* C14: book titles are unique at creation. In every state reached from the  *)
(* seed by mutations other than updateBook, no two books have titles that    *)
(* are equal under case-insensitive comparison.                              *)
C14_TitlesUniqueWithoutUpdateBook ==
  \A i, j \in 1..Len(books) :
    i # j => ~SameIgnoringCase(books[i].title.s, books[j].title.s)

(* C15: in every reachable state, for every author A, the Author.books field *)
(* of A and booksByAuthor(authorId: A.id) both return exactly the books that *)
(* reference A, in list order.                                               *)
C15_AuthorBooksAreReferencingBooks ==
  \A j \in 1..Len(authors) :
    LET referencing == SelectSeq(books, LAMBDA book : References(book, authors[j]))
    IN  /\ Author_books(authors[j]) = referencing
        /\ Query_booksByAuthor(Str(String(authors[j].id))).ret = referencing

(* C16: fullData is derived from live state. In every reachable state, for   *)
(* every book whose referenced author exists, fullData equals                *)
(* "<title> by <current name of that author> (<publishedYear or 'Unknown     *)
(* Year'>)"; seed book 3 with its seed author reads "1984 by George Orwell   *)
(* (1949)".                                                                  *)
C16_FullDataFollowsAuthor ==
  /\ \A i \in 1..Len(books), j \in 1..Len(authors) :
       (/\ References(books[i], authors[j])
        /\ \A k \in 1..(j - 1) : ~References(books[i], authors[k]))
       => Book_fullData(books[i])
            = Str(books[i].title.s \o CodeUnits(<<" ","b","y"," ">>) \o authors[j].name.s \o CodeUnits(<<" ","(">>)
                  \o (IF books[i].publishedYear = Undefined
                        THEN CodeUnits(<<"U","n","k","n","o","w","n"," ","Y","e","a","r">>) ELSE String(books[i].publishedYear))
                  \o CodeUnits(<<")">>))
  /\ IsSeedStore => Book_fullData(books[3]) = Str(CodeUnits(<<"1","9","8","4"," ","b","y"," ","G","e","o","r","g","e"," ","O","r","w","e","l","l"," ","(","1","9","4","9",")">>))

(* C17: no query resolver and no derived-field resolver changes the authors  *)
(* or books collection, for any arguments and in any reachable state,        *)
(* whether it returns or throws.                                             *)
C17_QueriesLeaveStoreUnchanged ==
  /\ StoreUnchanged(Query_books)
  /\ StoreUnchanged(Query_bookCount)
  /\ \A title \in TitleArgs : StoreUnchanged(Query_findBook(title))
  /\ \A id \in BookIdArgs : StoreUnchanged(Query_bookById(id))
  /\ StoreUnchanged(Query_authors)
  /\ \A id \in DeleteAuthorIdArgs : StoreUnchanged(Query_authorById(id))
  /\ \A name \in NameArgs : StoreUnchanged(Query_authorByName(name))
  /\ \A genre \in GenreArgs : StoreUnchanged(Query_booksByGenre(genre))
  /\ \A id \in DeleteAuthorIdArgs : StoreUnchanged(Query_booksByAuthor(id))
  /\ \A year \in YearArgs : StoreUnchanged(Query_booksByYear(year))
  /\ StoreUnchanged(Query_availableBooks)
  /\ \A query \in SearchArgs, genre \in GenreArgs \cup {Undefined} :
       StoreUnchanged(Query_searchBooks(query, genre))
  /\ \A first \in FirstArgs, after \in CursorArgs, last \in LastArgs, before \in CursorArgs :
       StoreUnchanged(Query_booksPaginated(first, after, last, before))
  /\ \A i \in 1..Len(books) :
       /\ StoreUnchanged(Reads(Book_author(books[i])))
       /\ StoreUnchanged(Reads(Book_fullData(books[i])))
  /\ \A j \in 1..Len(authors) : StoreUnchanged(Reads(Author_books(authors[j])))

(* C17 witness: after mutations the queries have different answers: a book   *)
(* added without a summary makes searchBooks throw, availableBooks leaves    *)
(* out a book, and a page of two books has a next page.                      *)
C17_Witness_QueriesAfterMutations ==
  /\ requests > 0
  /\ Query_searchBooks(Str(CodeUnits(<<"t","h","e">>)), Undefined).err = "TypeError"
  /\ Query_findBook(Str(CodeUnits(<<"D","u","n","e">>))).ret # Undefined
  /\ Len(Query_availableBooks.ret) < Len(books)
  /\ LET page == Query_booksPaginated(Undefined, Str(CodeUnits(<<"2">>)), Undefined, Undefined).ret
     IN  Len(page.edges) = 2 /\ page.pageInfo.hasNextPage = Bool(TRUE)

(* The input has a title no book has, in any case, and names an author of    *)
(* the collection.                                                           *)
UniqueTitleExistingAuthor(input) ==
  /\ \A i \in 1..Len(books) : ~SameIgnoringCase(books[i].title.s, input.title.s)
  /\ \E j \in 1..Len(authors) : Names(input.authorId, authors[j])

(* C18: publication-year range. With a unique title and an existing author,  *)
(* addBook raises 'Invalid publication year' for every supplied integer      *)
(* publishedYear outside 1..currentYear and accepts every value inside it,   *)
(* storing the year in the new book.                                         *)
C18_YearRange ==
  UniqueTitleExistingAuthor(ValidatedInput)
  => \A year \in YearValues :
       LET r == addBook([ValidatedInput EXCEPT !.publishedYear = Num(year)])
       IN  IF year >= 1 /\ year <= currentYear
             THEN r.err = NoError /\ r.ret.publishedYear = Num(year)
             ELSE r.err = "Invalid publication year" /\ r.books = books

(* C19: page-count positivity. With otherwise valid input addBook succeeds   *)
(* iff pages is omitted or strictly positive; every supplied integer         *)
(* pages <= 0, including 0, raises 'Pages must be a positive number' and     *)
(* adds no book.                                                             *)
C19_PagesPositive ==
  UniqueTitleExistingAuthor(ValidatedInput)
  => /\ addBook(ValidatedInput).err = NoError
     /\ \A pages \in PagesValues :
          LET r == addBook([ValidatedInput EXCEPT !.pages = Num(pages)])
          IN  IF pages > 0
                THEN r.err = NoError /\ r.ret.pages = Num(pages)
                ELSE r.err = "Pages must be a positive number" /\ r.books = books

(* C20: ISBN shape. With otherwise valid input addBook raises 'Invalid ISBN  *)
(* format' for every supplied isbn whose length after removing hyphens and   *)
(* whitespace is neither 10 nor 13 and accepts every isbn whose stripped     *)
(* length is 10 or 13; validateBookData reports 'Invalid ISBN format' for    *)
(* exactly the inputs addBook rejects for their isbn.                        *)
C20_IsbnShape ==
  UniqueTitleExistingAuthor(ValidatedInput)
  => \A isbn \in IsbnValues :
       LET input == [ValidatedInput EXCEPT !.isbn = Str(isbn)]
           r == addBook(input)
           errors == validateBookData(input)
           stripped == Len(cleanISBN(isbn))
       IN  /\ IF stripped = 10 \/ stripped = 13
                THEN r.err = NoError
                ELSE r.err = "Invalid ISBN format" /\ r.books = books
           /\ r.err = "Invalid ISBN format"
                <=> \E k \in 1..Len(errors) : errors[k] = "Invalid ISBN format"

(* The text contains the part, under case-insensitive comparison. *)
ContainsIgnoringCase(text, part) ==
  \E k \in 0..(Len(text) - Len(part)) :
    SameIgnoringCase(SubSeq(text, k + 1, k + Len(part)), part)

(* The book is one searchBooks(query, genre) is to return. *)
SearchMatches(book, query, genre) ==
  /\ \/ ContainsIgnoringCase(book.title.s, query.s)
     \/ book.summary.t = "string" /\ ContainsIgnoringCase(book.summary.s, query.s)
  /\ genre # Undefined => book.genre = genre

(* C21: in every reachable state, also when a book was added without a       *)
(* summary, searchBooks(query, genre) completes without raising and returns  *)
(* exactly the books whose title or summary contains the query               *)
(* case-insensitively and, when a genre is supplied, whose genre equals it,  *)
(* in list order.                                                            *)
C21_SearchBooksCompletes ==
  \A query \in SearchArgs, genre \in GenreArgs \cup {Undefined} :
    LET r == Query_searchBooks(query, genre)
    IN  /\ r.err = NoError
        /\ r.ret = SelectSeq(books, LAMBDA book : SearchMatches(book, query, genre))

(* The cursor is the stringified id of no book of the list. *)
Unmatched(cursor) ==
  cursor # Undefined /\ \A i \in 1..Len(books) : String(books[i].id) # cursor.s

SamePage(p, q) == p.edges = q.edges /\ p.pageInfo = q.pageInfo

(* C22: an unmatched cursor behaves like an absent cursor. In every state    *)
(* and for every first and last, booksPaginated with an `after` (resp. a     *)
(* `before`) that is the stringified id of no current book returns the same  *)
(* edges and pageInfo as the same call with `after` (resp. `before`)         *)
(* omitted.                                                                  *)
C22_UnmatchedCursorIsAbsentCursor ==
  \A first \in FirstArgs, last \in LastArgs, cursor \in CursorArgs, other \in CursorArgs :
    Unmatched(cursor)
    => /\ SamePage(Query_booksPaginated(first, cursor, last, other).ret,
                   Query_booksPaginated(first, Undefined, last, other).ret)
       /\ SamePage(Query_booksPaginated(first, other, last, cursor).ret,
                   Query_booksPaginated(first, other, last, Undefined).ret)

(* C23: for every state and every combination of first, after, last and      *)
(* before, the edges of booksPaginated are exactly the books at the list     *)
(* positions [startIndex, endIndex) of a window with                         *)
(* 0 <= startIndex <= endIndex <= length, hasNextPage is true iff a book     *)
(* lies after the window, hasPreviousPage is true iff a book lies before it, *)
(* startCursor and endCursor are the cursors of the first and last edge      *)
(* (undefined without edges), each cursor is the stringified id of its book, *)
(* and totalCount is the length of the list.                                 *)
C23_PageIsWindowOfList ==
  \A first \in FirstArgs, after \in CursorArgs, last \in LastArgs, before \in CursorArgs :
    LET page == Query_booksPaginated(first, after, last, before).ret
        L == Len(books)
        n == Len(page.edges)
    IN  /\ \E startIndex \in 0..L : \E endIndex \in startIndex..L :
             /\ Nodes(page) = SubSeq(books, startIndex + 1, endIndex)
             /\ page.pageInfo.hasNextPage = Bool(endIndex < L)
             /\ page.pageInfo.hasPreviousPage = Bool(startIndex > 0)
        /\ \A i \in 1..n : page.edges[i].cursor = Str(String(page.edges[i].node.id))
        /\ page.pageInfo.startCursor = IF n = 0 THEN Undefined ELSE page.edges[1].cursor
        /\ page.pageInfo.endCursor = IF n = 0 THEN Undefined ELSE page.edges[n].cursor
        /\ page.totalCount = L

(* C24: page-size bound. In every state and for every after, before and      *)
(* last, booksPaginated with first = n > 0, or without first (n = 2),        *)
(* returns at most n edges.                                                  *)
C24_PageSizeBound ==
  \A first \in FirstArgs, after \in CursorArgs, last \in LastArgs, before \in CursorArgs :
    LET n == IF first = Undefined THEN 2 ELSE first.n
    IN  n > 0 => Len(Query_booksPaginated(first, after, last, before).ret.edges) <= n

(* ceil(a / b) for b > 0 *)
CeilDiv(a, b) == (a + b - 1) \div b

(* C25: complete traversal. With no mutation in between, the loop that       *)
(* starts with booksPaginated(first: n), n > 0, and calls                    *)
(* booksPaginated(first: n, after: previous endCursor) while hasNextPage is  *)
(* true ends after ceil(L / n) calls (the first call is always made, also    *)
(* on an empty list), and the concatenated edges are the books of the list,  *)
(* each once, in list order.                                                 *)
C25_TraversalIsComplete ==
  \A n \in PageSizes :
    LET L == Len(books)
        run == traverse(n, Undefined, L + 2)
    IN  /\ run.done
        /\ run.calls = Max(1, CeilDiv(L, n))
        /\ run.nodes = books

(* C26: when `first` is omitted it is taken as 2 even if `last` is supplied. *)
(* In every state and for every last, after and before, booksPaginated       *)
(* without `first` returns what the same call with first: 2 returns, so      *)
(* booksPaginated(last: 1) alone returns the second book of the list, not    *)
(* its last book.                                                            *)
C26_FirstDefaultsToTwo ==
  /\ \A after \in CursorArgs, last \in LastArgs, before \in CursorArgs :
       Query_booksPaginated(Undefined, after, last, before)
         = Query_booksPaginated(Num(2), after, last, before)
  /\ Len(books) >= 2
       => Nodes(Query_booksPaginated(Undefined, Undefined, Num(1), Undefined).ret)
            = <<books[2]>>

(* C26 witness: after a deletion and an addition the list ends with a new    *)
(* book, and booksPaginated(last: 1) returns the book of id 3, now second.   *)
C26_Witness_LastAloneAfterMutations ==
  /\ Len(books) >= 3
  /\ books[Len(books)].ref = 0
  /\ books[2].id = Num(3)
  /\ Nodes(Query_booksPaginated(Undefined, Undefined, Num(1), Undefined).ret) = <<books[2]>>

(* The error of the first check of addBook that the input fails, in the      *)
(* order title uniqueness, author existence, ISBN, publication year, pages;  *)
(* NoError when it passes all five.                                          *)
FirstFailingCheck(input) ==
  IF \E i \in 1..Len(books) : SameIgnoringCase(books[i].title.s, input.title.s)
    THEN "Book title must be unique"
  ELSE IF ~\E j \in 1..Len(authors) : Names(input.authorId, authors[j])
    THEN "Author not found"
  ELSE IF input.isbn # Undefined /\ Len(cleanISBN(input.isbn.s)) \notin {10, 13}
    THEN "Invalid ISBN format"
  ELSE IF input.publishedYear # Undefined
          /\ ~(input.publishedYear.n >= 1 /\ input.publishedYear.n <= currentYear)
    THEN "Invalid publication year"
  ELSE IF input.pages # Undefined /\ input.pages.n <= 0
    THEN "Pages must be a positive number"
  ELSE NoError

(* C27: the checks of addBook run in the order title uniqueness, author      *)
(* existence, ISBN, publication year, pages, and the error raised is that of *)
(* the first failing check in this order: a duplicate title with an unknown  *)
(* authorId raises the duplicate-title error, a bad ISBN with a bad year     *)
(* raises the ISBN error.                                                    *)
C27_FirstFailingCheckDecides ==
  \A input \in OrderInputs : addBook(input).err = FirstFailingCheck(input)

(* The error of the first check of addAuthor that the input fails, in the    *)
(* order name uniqueness (of the name as it would be stored), birth-year     *)
(* validity, trimmed length of at least 2; NoError when it passes all three. *)
FirstFailingAuthorCheck(input) ==
  IF \E j \in 1..Len(authors) : SameIgnoringCase(authors[j].name.s, trim(input.name.s))
    THEN "Author name must be unique"
  ELSE IF input.birthYear # Undefined
          /\ ~(input.birthYear.n >= 1 /\ input.birthYear.n <= currentYear)
    THEN "Invalid birth year"
  ELSE IF Len(trim(input.name.s)) < 2
    THEN "Author name must be at least 2 characters"
  ELSE NoError

(* C28: the checks of addAuthor run in the order name uniqueness, birth-year *)
(* validity, minimum trimmed name length, and the first failing check        *)
(* determines the error; on success exactly one author is appended, with     *)
(* id = previous maximum author id + 1 and name = the trimmed input name.    *)
C28_AddAuthorChecksAndAppend ==
  \A input \in AuthorOrderInputs :
    LET r == addAuthor(input)
    IN  /\ r.err = FirstFailingAuthorCheck(input)
        /\ r.err = NoError
             => /\ r.authors = Append(authors, r.ret)
                /\ r.ret.name = Str(trim(input.name.s))
                /\ \A j \in 1..Len(authors) : authors[j].id.n < r.ret.id.n
                /\ \E j \in 1..Len(authors) : r.ret.id = Num(authors[j].id.n + 1)

(* No book, resp. no author, of the store has the id the argument spells. *)
NoBookNamed(id) == \A i \in 1..Len(books) : ~Names(id, books[i])

NoAuthorNamed(id) == \A j \in 1..Len(authors) : ~Names(id, authors[j])

(* C29: not-found asymmetry. In every state, updateBook,                     *)
(* toggleBookAvailability and updateAuthor called with an id that matches no *)
(* current entity raise a 'not found' error, whereas deleteBook and          *)
(* deleteAuthor called with such an id return false without raising; in all  *)
(* five cases the store is left unchanged.                                   *)
C29_NotFoundAsymmetry ==
  /\ \A id \in BookIdArgs \cup TextIdArgs :
       NoBookNamed(id)
       => /\ \A input \in BookUpdateInputs :
               LET r == updateBook(id, input)
               IN  r.err = "Book not found" /\ StoreUnchanged(r)
          /\ LET r == toggleBookAvailability(id)
             IN  r.err = "Book not found" /\ StoreUnchanged(r)
          /\ LET r == deleteBook(id)
             IN  r.err = NoError /\ r.ret = Bool(FALSE) /\ StoreUnchanged(r)
  /\ \A id \in DeleteAuthorIdArgs \cup UpdateAuthorIdArgs \cup TextIdArgs :
       NoAuthorNamed(id)
       => /\ \A input \in AuthorUpdateInputs :
               LET r == updateAuthor(id, input)
               IN  r.err = "Author not found" /\ StoreUnchanged(r)
          /\ LET r == deleteAuthor(id)
             IN  r.err = NoError /\ r.ret = Bool(FALSE) /\ StoreUnchanged(r)

(* ys is xs without its element at position i, the others in their order. *)
RemovedAt(xs, ys, i) ==
  /\ Len(ys) = Len(xs) - 1
  /\ \A k \in 1..Len(ys) : ys[k] = IF k < i THEN xs[k] ELSE xs[k + 1]

(* C30: a successful deletion removes exactly the target. deleteBook(id) on  *)
(* an existing book, and deleteAuthor(id) on an existing author referenced   *)
(* by no book, return true, remove that one entity, keep all other entities  *)
(* in their order and leave the other collection untouched.                  *)
C30_DeleteRemovesExactlyTarget ==
  /\ \A id \in BookIdArgs : \A i \in 1..Len(books) :
       Names(id, books[i])
       => LET r == deleteBook(id)
          IN  /\ r.err = NoError /\ r.ret = Bool(TRUE)
              /\ RemovedAt(books, r.books, i)
              /\ r.authors = authors
  /\ \A id \in DeleteAuthorIdArgs : \A j \in 1..Len(authors) :
       (Names(id, authors[j]) /\ \A i \in 1..Len(books) : ~References(books[i], authors[j]))
       => LET r == deleteAuthor(id)
          IN  /\ r.err = NoError /\ r.ret = Bool(TRUE)
              /\ RemovedAt(authors, r.authors, j)
              /\ r.books = books

(* C30 witness: a book and an author were added; the new book at the end of  *)
(* the list and the new author, whom no book references, can both be         *)
(* deleted, as can seed book 2 from the middle of the list.                  *)
C30_Witness_DeleteAddedEntities ==
  /\ \E i \in 1..Len(books) : books[i].ref = 0 /\ Names(Str(CodeUnits(<<"6">>)), books[i])
  /\ \E j \in 1..Len(authors) :
       /\ Names(Str(CodeUnits(<<"6">>)), authors[j])
       /\ \A i \in 1..Len(books) : ~References(books[i], authors[j])
  /\ deleteBook(Str(CodeUnits(<<"6">>))).ret = Bool(TRUE)
  /\ deleteBook(Str(CodeUnits(<<"2">>))).ret = Bool(TRUE)
  /\ deleteAuthor(Str(CodeUnits(<<"6">>))).ret = Bool(TRUE)

(* The fields of a book record that the program has (ref is the identity of  *)
(* the object, not a field).                                                 *)
BookFields == DOMAIN EmptyBook \ {"ref"}

(* C31: updateBook(id, input) on an existing book changes only the fields    *)
(* present in input: the book keeps its id and its position in the list,     *)
(* every field absent from input keeps its previous value, every other book  *)
(* and the whole authors collection are unchanged, and the list length is    *)
(* unchanged.                                                                *)
C31_UpdateBookChangesOnlyInputFields ==
  \A id \in BookIdArgs, input \in BookUpdateProbes : \A i \in 1..Len(books) :
    Names(id, books[i])
    => LET r == updateBook(id, input)
       IN  /\ r.err = NoError
           /\ Len(r.books) = Len(books)
           /\ r.ret = r.books[i]
           /\ r.books[i].id = books[i].id
           /\ \A f \in BookFields :
                (f \notin DOMAIN input \/ input[f] = Undefined)
                => r.books[i][f] = books[i][f]
           /\ \A k \in 1..Len(books) : k # i => r.books[k] = books[k]
           /\ r.authors = authors

(* C31 witness: book 1 was already updated once and a book was added; both   *)
(* can be updated, and the update of a title leaves the new book's other     *)
(* fields as addBook stored them.                                            *)
C31_Witness_UpdateAddedAndUpdatedBook ==
  /\ \E i \in 1..Len(books) :
       books[i].ref = 0 /\ Names(Str(CodeUnits(<<"1">>)), books[i]) /\ books[i].authorId = Num(2)
  /\ \E i \in 1..Len(books) :
       /\ Names(Str(CodeUnits(<<"6">>)), books[i])
       /\ LET r == updateBook(Str(CodeUnits(<<"6">>)), [BookUpdateInput EXCEPT !.title = Str(CodeUnits(<<"1","9","8","4">>))])
          IN  r.err = NoError /\ r.ret.title # books[i].title /\ r.ret.authorId = books[i].authorId

(* C32: updates perform no re-validation. updateBook and updateAuthor on an  *)
(* existing id never raise, whatever the input, and store what the input     *)
(* carries: also a title another book has, an ISBN, year or page count that  *)
(* addBook would refuse, a name another author has or a name shorter than 2  *)
(* characters.                                                               *)
C32_UpdatesDoNotValidate ==
  /\ \A id \in BookIdArgs, input \in BookUpdateProbes :
       ~NoBookNamed(id)
       => LET r == updateBook(id, input)
          IN  /\ r.err = NoError
              /\ \A f \in {"title", "isbn", "publishedYear", "pages"} :
                   input[f] # Undefined => r.ret[f] = input[f]
  /\ \A id \in DeleteAuthorIdArgs \cup UpdateAuthorIdArgs, input \in AuthorUpdateProbes :
       ~NoAuthorNamed(id)
       => LET r == updateAuthor(id, input)
          IN  /\ r.err = NoError
              /\ r.ret.name = input.name
              /\ input.birthYear # Undefined => r.ret.birthYear = input.birthYear

(* C32 witness: after a book was added, giving it the title of seed book 3   *)
(* succeeds although addBook refuses that title, and renaming author 1 to    *)
(* the name of author 4 or to one character succeeds as well.                *)
C32_Witness_UpdateToDuplicates ==
  /\ \E i \in 1..Len(books) : books[i].ref = 0 /\ Names(Str(CodeUnits(<<"6">>)), books[i])
  /\ \E i \in 1..Len(books) : books[i].title = Str(CodeUnits(<<"1","9","8","4">>))
  /\ addBook(BookInput(CodeUnits(<<"1","9","8","4">>), CodeUnits(<<"1">>))).err = "Book title must be unique"
  /\ updateBook(Str(CodeUnits(<<"6">>)), [BookUpdateInput EXCEPT !.title = Str(CodeUnits(<<"1","9","8","4">>))]).err
       = NoError
  /\ \E j \in 1..Len(authors) : authors[j].name = Str(CodeUnits(<<"H","a","r","p","e","r"," ","L","e","e">>)) /\ ~Names(Str(CodeUnits(<<"1">>)), authors[j])
  /\ updateAuthor(Str(CodeUnits(<<"1">>)), AuthorInput(CodeUnits(<<"H","a","r","p","e","r"," ","L","e","e">>))).err = NoError
  /\ addAuthor(AuthorInput(CodeUnits(<<"X">>))).err = "Author name must be at least 2 characters"
  /\ updateAuthor(Str(CodeUnits(<<"1">>)), AuthorInput(CodeUnits(<<"X">>))).ret.name = Str(CodeUnits(<<"X">>))

(* The client's request was an addBook that succeeded. *)
AddedBook(c) == replies[c].op = "addBook" /\ replies[c].err = NoError

(* C33: operations are atomic with respect to each other. Under any          *)
(* interleaving of concurrently submitted requests, two concurrent addBook   *)
(* calls with the same title never both succeed, and two concurrent          *)
(* successful addBook calls never receive the same id.                       *)
C33_ConcurrentAddBooksDistinct ==
  \A c, d \in Clients :
    (c # d /\ AddedBook(c) /\ AddedBook(d))
    => /\ ~SameIgnoringCase(replies[c].ret.title.s, replies[d].ret.title.s)
       /\ replies[c].ret.id # replies[d].ret.id

(* C34: the seed records are never modified. After any sequence of           *)
(* mutations every record of initialBooks has its original field values, in  *)
(* particular its original isAvailable, so the books that resetData restores *)
(* are field for field those of the start-up state. (initialAuthors has no   *)
(* writer: updateAuthor assigns a new object.)                               *)
C34_SeedRecordsNeverModified ==
  /\ initialBooks = SeedBooks
  /\ Mutation_resetData.books = SeedBooks

=============================================================================
